---------------------------- MODULE Spec2Model ----------------------------
(***************************************************************************)
(* Model of the backend aggregation / caching / projection engine of the   *)
(* ETH accrual asset dashboard (src/unnamed/part_006, lines 954-1856: the  *)
(* Express service with dataState, the four source adapters, the price     *)
(* history store, the historical seeder, the projection and the facade).   *)
(*                                                                         *)
(* Conventions                                                             *)
(*   - A JavaScript value that may be null is a sequence of length 0 or 1: *)
(*     None = <<>> is null/undefined, Some(v) = <<v>> is the value v.      *)
(*   - Time is counted in units of 12 hours since 2023-01-01T00:00:00Z, so *)
(*     msPerDay is 2 units and the 1.5 day gap threshold is 3 units.       *)
(*   - Prices, averages, APR and fee percent are exact rationals           *)
(*     [n |-> numerator, d |-> denominator] kept in lowest terms.          *)
(*   - The raw on-chain fee (a uint256) and the numbers derived from it    *)
(*     are decimals [m |-> mantissa, e |-> exponent, off |-> offset]: the  *)
(*     number m * 10^e with m not divisible by 10 (0 has m = 0, e = 0),    *)
(*     and, for a uint256 only, off in {-1, 0, 1}: the integer             *)
(*     m * 10^e + off, where e >= 18 whenever off # 0. A JavaScript number *)
(*     (a double) cannot tell such an integer from m * 10^e.               *)
(*   - A Number of the web client (src/webapp/src/App.jsx) is an IEEE 754  *)
(*     double, and its arithmetic rounds as JavaScript does (Float64).     *)
(***************************************************************************)
EXTENDS Integers, Sequences, FiniteSets, TLC

None == <<>>
Some(v) == <<v>>
IsNull(o) == o = <<>>
Val(o) == o[1]
\* a number that is not finite: Infinity, as JSON.parse reads 1e999
NotFinite == <<1, 0>>
\* the number NaN, as Number('n/a') or Number({}) gives it
NaN == <<0, 0>>
\* typeof o === 'number'
IsNumber(o) == Len(o) >= 1
\* typeof o === 'number' && Number.isFinite(o)
IsFiniteNumber(o) == Len(o) = 1

(***************************************************************************)
(* Exact rationals.                                                        *)
(***************************************************************************)
RECURSIVE Gcd(_, _)
Gcd(a, b) == IF b = 0 THEN a ELSE Gcd(b, a % b)

Abs(x) == IF x < 0 THEN -x ELSE x

Rat(n, d) ==
  LET g == Gcd(Abs(n), Abs(d))
      s == IF d < 0 THEN -1 ELSE 1
  IN  IF n = 0 THEN [n |-> 0, d |-> 1]
      ELSE [n |-> s * (n \div g), d |-> s * (d \div g)]

RatInt(k) == [n |-> k, d |-> 1]

\* a * b, cancelling across the two fractions before multiplying
RatMul(a, b) ==
  LET g1 == Gcd(Abs(a.n), b.d)
      g2 == Gcd(Abs(b.n), a.d)
  IN  IF a.n = 0 \/ b.n = 0 THEN [n |-> 0, d |-> 1]
      ELSE [n |-> (a.n \div g1) * (b.n \div g2), d |-> (a.d \div g2) * (b.d \div g1)]

\* a / b for b # 0
RatDiv(a, b) ==
  RatMul(a, IF b.n < 0 THEN [n |-> -b.d, d |-> -b.n] ELSE [n |-> b.d, d |-> b.n])

RatPos(a) == a.n > 0

\* a > b, by the whole parts and then by the reciprocals of the fractional
\* parts, so that no product is formed
RECURSIVE RatGt(_, _)
RatGt(a, b) ==
  IF a.n \div a.d # b.n \div b.d THEN a.n \div a.d > b.n \div b.d
  ELSE IF a.n % a.d = 0 THEN FALSE
  ELSE IF b.n % b.d = 0 THEN TRUE
  ELSE RatGt([n |-> b.d, d |-> b.n % b.d], [n |-> a.d, d |-> a.n % a.d])

(***************************************************************************)
(* Exact decimals m * 10^e.                                                *)
(***************************************************************************)
RECURSIVE DecNorm(_, _)
DecNorm(m, e) ==
  IF m = 0 THEN [m |-> 0, e |-> 0, off |-> 0]
  ELSE IF m % 10 = 0 THEN DecNorm(m \div 10, e + 1)
  ELSE [m |-> m, e |-> e, off |-> 0]

\* the uint256 m * 10^e + off, for e >= 18 and off in {-1, 1}
DecBeside(m, e, off) == [DecNorm(m, e) EXCEPT !.off = off]

\* Number(text): the nearest double. A decimal with a short mantissa is kept; an
\* integer of 18 digits or more that is one away from it (or that integer divided
\* by a power of ten) differs from it by less than half an ulp and rounds to it
ToNumber(x) == [x EXCEPT !.off = 0]

RECURSIVE Digits(_)
Digits(m) == IF m < 10 THEN 1 ELSE 1 + Digits(m \div 10)

\* x < 10^k and x <= 10^k for a normalised decimal x
DecLtPow10(x, k) == x.m = 0 \/ Digits(x.m) + x.e <= k
DecLePow10(x, k) == DecLtPow10(x, k) \/ (x.m = 1 /\ x.e = k)
DecPos(x) == x.m > 0

\* x / 10^k
DecShift(x, k) == IF x.m = 0 THEN x ELSE [x EXCEPT !.e = x.e - k]

DecMul(x, y) == DecNorm(x.m * y.m, x.e + y.e)

(***************************************************************************)
(* Program constants (time in 12 hour units).                              *)
(***************************************************************************)
msPerDay == 2
PRICE_HISTORY_WINDOW_MS == 30 * msPerDay
BLOCKS_PER_YEAR == 2628000
Symbols == {"ETH", "SSV"}
symbolsList == <<"ETH", "SSV">>

(***************************************************************************)
(* normalizeNetworkFeeDecimal: the heuristic decoder of the raw fee.       *)
(* rawNumber is Number(feeBigInt.toString()); the candidates are           *)
(* formatUnits(fee, decimals), i.e. raw / 10^decimals.                     *)
(***************************************************************************)
candidates ==
  << [label |-> "18-decimals", percentLabel |-> "18-decimals-percent", decimals |-> 18],
     [label |-> "8-decimals",  percentLabel |-> "8-decimals-percent",  decimals |-> 8],
     [label |-> "6-decimals",  percentLabel |-> "6-decimals-percent",  decimals |-> 6],
     [label |-> "4-decimals",  percentLabel |-> "4-decimals-percent",  decimals |-> 4],
     [label |-> "raw",         percentLabel |-> "raw-percent",         decimals |-> 0] >>

\* candidate.value: Number(ethers.utils.formatUnits(feeBigInt, decimals))
CandidateValue(raw, i) == ToNumber(DecShift(raw, candidates[i].decimals))

\* candidate.value > 0 && candidate.value < 1
CandidateIsFraction(raw, i) ==
  DecPos(CandidateValue(raw, i)) /\ DecLtPow10(CandidateValue(raw, i), 0)

\* a mutation of CandidateIsPercent: the upper limit is 1000 instead of 100
CandidateIsPercent_Loose(raw, i) ==
  /\ DecPos(CandidateValue(raw, i))
  /\ ~DecLtPow10(CandidateValue(raw, i), 0)
  /\ DecLePow10(CandidateValue(raw, i), 3)

\* candidate.value >= 1 && candidate.value <= 100
CandidateIsPercent(raw, i) ==
  /\ DecPos(CandidateValue(raw, i))
  /\ ~DecLtPow10(CandidateValue(raw, i), 0)
  /\ DecLePow10(CandidateValue(raw, i), 2)

FirstFraction(raw) ==
  CHOOSE i \in 1..Len(candidates) :
    CandidateIsFraction(raw, i) /\ \A j \in 1..(i - 1) : ~CandidateIsFraction(raw, j)

FirstPercent(raw) ==
  CHOOSE i \in 1..Len(candidates) :
    CandidateIsPercent(raw, i) /\ \A j \in 1..(i - 1) : ~CandidateIsPercent(raw, j)

\* the body of normalizeNetworkFeeDecimal once rawNumber and perBlockSsv are read
DecodeFee(raw, rawNumber, perBlockSsv, perYearSsv) ==
  IF DecPos(rawNumber) /\ DecLePow10(rawNumber, 7) /\ DecLtPow10(DecShift(rawNumber, 4), 0)
    THEN [percentDecimal |-> Some(DecShift(rawNumber, 4)), scale |-> Some("basis-points"),
          perBlockSsv |-> Some(perBlockSsv), perYearSsv |-> Some(perYearSsv)]
  ELSE IF DecPos(rawNumber) /\ DecLePow10(rawNumber, 2)
    THEN [percentDecimal |-> Some(DecShift(rawNumber, 2)), scale |-> Some("percent-integer"),
          perBlockSsv |-> Some(perBlockSsv), perYearSsv |-> Some(perYearSsv)]
  ELSE IF \E i \in 1..Len(candidates) : CandidateIsFraction(raw, i)
    THEN [percentDecimal |-> Some(CandidateValue(raw, FirstFraction(raw))),
          scale |-> Some(candidates[FirstFraction(raw)].label),
          perBlockSsv |-> Some(perBlockSsv), perYearSsv |-> Some(perYearSsv)]
  ELSE IF \E i \in 1..Len(candidates) : CandidateIsPercent(raw, i)
    THEN [percentDecimal |-> Some(DecShift(CandidateValue(raw, FirstPercent(raw)), 2)),
          scale |-> Some(candidates[FirstPercent(raw)].percentLabel),
          perBlockSsv |-> Some(perBlockSsv), perYearSsv |-> Some(perYearSsv)]
  ELSE [percentDecimal |-> None, scale |-> None,
        perBlockSsv |-> Some(perBlockSsv), perYearSsv |-> Some(perYearSsv)]

normalizeNetworkFeeDecimal(raw) ==
  DecodeFee(raw, ToNumber(raw), ToNumber(DecShift(raw, 18)),
            DecMul(ToNumber(DecShift(raw, 18)), DecNorm(BLOCKS_PER_YEAR, 0)))

\* normalizePercentDecimal(rawPercent) for a configured fee percent:
\* cfg is None for NaN, else Some(rational)
normalizePercentDecimal(rawPercent) ==
  IF IsNull(rawPercent) \/ ~RatPos(Val(rawPercent)) THEN None
  ELSE IF RatGt(Val(rawPercent), RatInt(1))
    THEN Some(RatDiv(Val(rawPercent), RatInt(100)))
  ELSE rawPercent

(***************************************************************************)
(* Calendar: days are counted from 2023-01-01 (day 19358 of the Unix era), *)
(* in the proleptic Gregorian calendar that Date uses.                     *)
(***************************************************************************)
\* getUTCFullYear(), getUTCMonth() (0..11) and getUTCDate() of a day
UTCDate(day) ==
  LET Civil(era, yoe, doy, mp) ==
        [year |-> yoe + era * 400 + (IF mp >= 10 THEN 1 ELSE 0),
         month |-> IF mp < 10 THEN mp + 2 ELSE mp - 10,
         date |-> doy - (153 * mp + 2) \div 5 + 1]
      OfYear(era, yoe, doy) == Civil(era, yoe, doy, (5 * doy + 2) \div 153)
      OfEra(era, doe, yoe) == OfYear(era, yoe, doe - (365 * yoe + yoe \div 4 - yoe \div 100))
      OfDay(era, doe) ==
        OfEra(era, doe, (doe - doe \div 1460 + doe \div 36524 - doe \div 146096) \div 365)
  IN  OfDay((day + 19358 + 719468) \div 146097, (day + 19358 + 719468) % 146097)

\* Date.UTC(year, month, 0) as a day: the day before the first of the month
\* (month 0..11); a year of 0..99 is read as 1900 + year
DateUTC(year, month) ==
  LET fullYear == IF year >= 0 /\ year <= 99 THEN 1900 + year ELSE year
      y == IF month < 2 THEN fullYear - 1 ELSE fullYear
      mp == IF month < 2 THEN month + 10 ELSE month - 2
      OfEra(era, yoe) ==
        era * 146097 + yoe * 365 + yoe \div 4 - yoe \div 100 + (153 * mp + 2) \div 5
      OfYear(era) == OfEra(era, y - era * 400)
  IN  OfYear(y \div 400) - 719468 - 19358 - 1

\* Date.UTC(refDate.getUTCFullYear(), refDate.getUTCMonth(), 0): the last day of
\* the previous month, 00:00 UTC
EndDateUtc(refMs) ==
  LET OfDate(refDate) == DateUTC(refDate.year, refDate.month) * msPerDay
  IN  OfDate(UTCDate(refMs \div msPerDay))

StartDateUtc(refMs) == EndDateUtc(refMs) - 29 * msPerDay
EndExclusive(refMs) == EndDateUtc(refMs) + msPerDay

(***************************************************************************)
(* Rolling history store.                                                  *)
(***************************************************************************)
\* An entry of the history is stamped in milliseconds: timestamp counts the 12
\* hour units since 2023-01-01 00:00 UTC and ms the milliseconds into the unit
\* (0 for a reading of the clock, 43199999 for a daily close of 23:59:59.999).
\* a.timestamp - b.timestamp < 0
EarlierEntry(a, b) ==
  a.timestamp < b.timestamp \/ (a.timestamp = b.timestamp /\ a.ms < b.ms)

\* Array.prototype.sort((a, b) => a.timestamp - b.timestamp): a stable sort
\* (SortSeq is an insertion sort that moves an entry only past strictly later ones)
SortByTimestamp(s) == SortSeq(s, EarlierEntry)

\* entries.reduce((acc, entry) => acc + entry.priceUsd, 0), summed price by price
RECURSIVE SumOver(_, _)
SumOver(s, values) ==
  IF values = {} THEN 0
  ELSE LET v == CHOOSE x \in values : TRUE
           same(entry) == entry.priceUsd = v
       IN  v * Len(SelectSeq(s, same)) + SumOver(s, values \ {v})

\* typeof priceUsd === 'number' && Number.isFinite(priceUsd) && priceUsd > 0
IsPositivePrice(p) == IsFiniteNumber(p) /\ Val(p) > 0

PriceOf(prices, symbol) ==
  IF IsNull(prices) THEN None ELSE Val(prices)[symbol].priceUsd

\* a mutation of addPriceHistory: every price of type number is pushed
addPriceHistory_AnyNumber(priceHistory, prices, nowMs) ==
  LET cutoff == nowMs - PRICE_HISTORY_WINDOW_MS
      keep(entry) == entry.timestamp >= cutoff
  IN  IF IsNull(prices) THEN priceHistory
      ELSE
      [symbol \in Symbols |->
         LET priceUsd == PriceOf(prices, symbol)
             pushed == IF IsNumber(priceUsd)
                         THEN Append(priceHistory[symbol],
                                     [timestamp |-> nowMs, ms |-> 0, priceUsd |-> Val(priceUsd)])
                         ELSE priceHistory[symbol]
         IN  SelectSeq(pushed, keep)]

addPriceHistory(priceHistory, prices, nowMs) ==
  LET cutoff == nowMs - PRICE_HISTORY_WINDOW_MS
      keep(entry) == entry.timestamp >= cutoff
  IN  IF IsNull(prices) THEN priceHistory
      ELSE
      [symbol \in Symbols |->
         LET priceUsd == PriceOf(prices, symbol)
             pushed == IF IsPositivePrice(priceUsd)
                         THEN Append(priceHistory[symbol],
                                     [timestamp |-> nowMs, ms |-> 0, priceUsd |-> Val(priceUsd)])
                         ELSE priceHistory[symbol]
         IN  SelectSeq(pushed, keep)]

\* the returned object, given the sorted entries and those inside the window
ClosingWindow(entries, windowEntries, startDateUtc, endDateUtc) ==
  IF Len(entries) = 0 THEN None
  ELSE IF Len(windowEntries) < 30 THEN None
  ELSE Some([avg |-> Some(Rat(SumOver(windowEntries,
                                     {windowEntries[i].priceUsd : i \in 1..Len(windowEntries)}),
                             Len(windowEntries))),
             count |-> Len(windowEntries),
             start |-> startDateUtc,
             end |-> endDateUtc,
             daysSpan |-> (endDateUtc - startDateUtc) \div msPerDay,
             hasGap |-> \E idx \in 2..Len(windowEntries) :
                          LET entry == windowEntries[idx]
                              previous == windowEntries[idx - 1]
                              units == entry.timestamp - previous.timestamp
                          IN  \/ 2 * units > msPerDay * 3
                              \/ 2 * units = msPerDay * 3 /\ entry.ms > previous.ms])

\* entries.filter(entry => entry.timestamp >= startDateUtc && entry.timestamp < endExclusive)
WindowEntries(entries, startDateUtc, endExclusive) ==
  SelectSeq(entries, LAMBDA entry : entry.timestamp >= startDateUtc
                                    /\ entry.timestamp < endExclusive)

ClosingWindowAt(entries, effectiveRef) ==
  ClosingWindow(entries,
                WindowEntries(entries, StartDateUtc(effectiveRef), EndExclusive(effectiveRef)),
                StartDateUtc(effectiveRef), EndDateUtc(effectiveRef))

calculate30dClosingWindow(history, lastCmcTimestamp, nowMs) ==
  ClosingWindowAt(SortByTimestamp(history),
                  IF IsNull(lastCmcTimestamp) THEN nowMs ELSE Val(lastCmcTimestamp))

backfillWithCurrentPrices(priceHistory, prices, nowMs) ==
  LET fill(symbol) == IsPositivePrice(PriceOf(prices, symbol))
  IN  [priceHistory |->
         [symbol \in Symbols |->
            IF fill(symbol)
              THEN [k \in 1..30 |-> [timestamp |-> nowMs - (30 - k) * msPerDay, ms |-> 0,
                                     priceUsd |-> Val(PriceOf(prices, symbol))]]
              ELSE priceHistory[symbol]],
       added |-> \E symbol \in Symbols : fill(symbol)]

\* the quotes.forEach of the seeder followed by the filter/sort of the history
\* a quote is [close |-> Opt, time_close |-> Opt, ms |-> the milliseconds of
\* time_close into its unit]
QuoteIsValid(quote) ==
  /\ ~IsNull(quote.close) /\ Val(quote.close) > 0
  /\ ~IsNull(quote.time_close)

PushQuotes(history, quotes) ==
  LET valid == SelectSeq(quotes, QuoteIsValid)
  IN  history \o [k \in 1..Len(valid) |-> [timestamp |-> Val(valid[k].time_close), ms |-> valid[k].ms,
                                           priceUsd |-> Val(valid[k].close)]]

SeedSymbolHistory(history, quotes) == SortByTimestamp(PushQuotes(history, quotes))

(***************************************************************************)
(* Projection engine.                                                      *)
(***************************************************************************)
IsPositiveApr(stakingApr) ==
  ~IsNull(stakingApr) /\ ~IsNull(Val(stakingApr).value) /\ RatPos(Val(Val(stakingApr).value))

\* a mutation of PerValidatorEthYieldUsd: the 32 ETH stake is left out
PerValidatorEthYieldUsd_NoStake(avgEthPrice, stakingAprDecimal) ==
  RatMul(avgEthPrice, stakingAprDecimal)

\* 32 * avgEthPrice * stakingAprDecimal
PerValidatorEthYieldUsd(avgEthPrice, stakingAprDecimal) ==
  RatMul(RatMul(RatInt(32), avgEthPrice), stakingAprDecimal)

\* the lines after the yield check: store the projection or clear it
StoreProjection(ds, ethWindow, ssvWindow, stakingAprDecimal, networkFeePercentDecimal, perValidatorEthYieldUsd, perYearSsv, nowMs) ==
  IF ~RatPos(perValidatorEthYieldUsd) THEN ds
  ELSE IF RatPos(perYearSsv)
    THEN [ds EXCEPT !.nextMonthFeeProjection =
            Some([perYearSsv |-> perYearSsv,
                  avgEthPrice |-> Val(ethWindow.avg),
                  avgSsvPrice |-> Val(ssvWindow.avg),
                  stakingApr |-> stakingAprDecimal,
                  networkFeePercent |-> networkFeePercentDecimal,
                  computedAt |-> nowMs,
                  ethWindow |-> ethWindow,
                  ssvWindow |-> ssvWindow])]
  ELSE [ds EXCEPT !.nextMonthFeeProjection = None]

ComputeProjection(ds, ethWindow, ssvWindow, stakingAprDecimal, networkFeePercentDecimal, perValidatorEthYieldUsd, nowMs) ==
  StoreProjection(ds, ethWindow, ssvWindow, stakingAprDecimal, networkFeePercentDecimal,
                  perValidatorEthYieldUsd,
                  \* (perValidatorEthYieldUsd * networkFeePercentDecimal) / avgSsvPrice
                  RatDiv(RatMul(perValidatorEthYieldUsd, networkFeePercentDecimal),
                         Val(ssvWindow.avg)),
                  nowMs)

\* the body of logProjectedNextMonthFee once the two windows and the fee percent are read
ProjectNextMonthFee(ds, ethWindow, ssvWindow, networkFeePercentDecimal, nowMs) ==
  LET windowOk ==
        /\ ~IsNull(ethWindow) /\ ~IsNull(ssvWindow)
        /\ Val(ethWindow).count >= 30 /\ Val(ssvWindow).count >= 30
        /\ ~Val(ethWindow).hasGap /\ ~Val(ssvWindow).hasGap
        /\ Val(ethWindow).daysSpan >= 29 /\ Val(ssvWindow).daysSpan >= 29
  IN
  \* avg === null only for a window whose average is not finite
  IF (~IsNull(ethWindow) /\ IsNull(Val(ethWindow).avg))
     \/ (~IsNull(ssvWindow) /\ IsNull(Val(ssvWindow).avg))
     \/ ~IsPositiveApr(ds.stakingApr) \/ IsNull(networkFeePercentDecimal)
    THEN ds
  ELSE IF ~windowOk
    THEN [ds EXCEPT !.nextMonthFeeProjection = None]
  ELSE ComputeProjection(ds, Val(ethWindow), Val(ssvWindow), Val(Val(ds.stakingApr).value),
                         Val(networkFeePercentDecimal),
                         PerValidatorEthYieldUsd(Val(Val(ethWindow).avg),
                                                 Val(Val(ds.stakingApr).value)),
                         nowMs)

\* a mutation of logProjectedNextMonthFee: the fee input is taken only when the
\* fee reader has cached a decoded fee
logProjectedNextMonthFee_NeedsCachedFee(ds, feePercentV1, nowMs) ==
  ProjectNextMonthFee(
    ds,
    calculate30dClosingWindow(ds.priceHistory["ETH"], ds.lastCmcTimestamp, nowMs),
    calculate30dClosingWindow(ds.priceHistory["SSV"], ds.lastCmcTimestamp, nowMs),
    IF IsNull(ds.networkFee) \/ IsNull(Val(ds.networkFee).percentDecimal) THEN None
    ELSE normalizePercentDecimal(feePercentV1),
    nowMs)

logProjectedNextMonthFee(ds, feePercentV1, nowMs) ==
  ProjectNextMonthFee(
    ds,
    calculate30dClosingWindow(ds.priceHistory["ETH"], ds.lastCmcTimestamp, nowMs),
    calculate30dClosingWindow(ds.priceHistory["SSV"], ds.lastCmcTimestamp, nowMs),
    normalizePercentDecimal(feePercentV1), nowMs)

(***************************************************************************)
(* Bounds of the model and the inputs the environment may supply.          *)
(***************************************************************************)
MaxCycles == 2
\* cycles started in the specification of overlapping cycles
MaxOverlapCycles == 3
MaxTicks == 1
\* failed responses (adapter requests and historical requests) in one run
MaxFailures == 1
\* number of daily closes in one historical response (the request asks for up to 90)
MaxSeedQuotes == 35
\* cycles started in the specification of the fee decoder
MaxDecodeCycles == 2
MaxWindowCycles == 2
\* cycles started in the specification of the price adapter
MaxPriceCycles == 2
\* cycles started in the specification of the staking-yield adapter
MaxAprCycles == 2
\* cycles started in the specification of the stake-total adapter
MaxStakedCycles == 2

\* 2023-02-03T00:00Z, the wall clock when the service starts
StartTime == 33 * msPerDay

Adapters == {"prices", "stakingApr", "stakedEth", "networkFee"}

(***************************************************************************)
(* Web client (src/webapp/src/App.jsx): the IMP tab.                       *)
(***************************************************************************)
IMP_MAX_INFLATION_PERCENT == 15

\* A Number of the client is an IEEE 754 double: Some of a finite value (sign
\* neg, odd significand m in limbs of 15 bits, least significant first, and
\* binary exponent e, of value m * 2^e; zero has no limb), <<1, 0>> or <<-1, 0>>
\* for the infinities, or NaN.  Float64FromInt(k) is the Number of the integer
\* literal k, |k| < 2^31.
Float64FromInt(k) ==
  LET Limbs(n) == IF n < 32768 THEN <<n>>
                  ELSE IF n < 32768 * 32768 THEN <<n % 32768, n \div 32768>>
                  ELSE <<n % 32768, (n \div 32768) % 32768, n \div (32768 * 32768)>>
      RECURSIVE Odd(_, _)
      Odd(n, e) == IF n % 2 = 0 THEN Odd(n \div 2, e + 1)
                   ELSE Some([neg |-> k < 0, m |-> Limbs(n), e |-> e])
  IN  IF k = 0 THEN Some([neg |-> FALSE, m |-> <<>>, e |-> 0]) ELSE Odd(Abs(k), 0)

\* x op y of two Numbers as JavaScript computes it (binary64, round to nearest,
\* ties to even), for op one of "*", "/", "+" (a Number) and "<", "<=" (a
\* Boolean).  Significands are naturals in limbs below B, least significant
\* first, without a leading zero limb.
Float64(op, x, y) ==
  LET B == 32768
      Max(a, b) == IF a > b THEN a ELSE b
      Min(a, b) == IF a < b THEN a ELSE b
      Limb(a, i) == IF i >= 1 /\ i <= Len(a) THEN a[i] ELSE 0
      Trim(a) ==
        SubSeq(a, 1, CHOOSE n \in 0..Len(a) :
                       (n = 0 \/ a[n] # 0) /\ \A j \in (n + 1)..Len(a) : a[j] = 0)
      BitLen(a) ==
        IF a = <<>> THEN 0
        ELSE 15 * (Len(a) - 1)
               + (CHOOSE k \in 1..15 : a[Len(a)] < 2 ^ k /\ 2 ^ (k - 1) <= a[Len(a)])
      \* a * 2^(15 w + r) and the whole part of a / 2^(15 w + r), for r below 15
      ShlBy(a, w, r) ==
        Trim([i \in 1..(Len(a) + w + 1) |->
                (Limb(a, i - w) % (2 ^ (15 - r))) * (2 ^ r)
                  + (Limb(a, i - w - 1) \div (2 ^ (15 - r)))])
      Shl(a, k) == ShlBy(a, k \div 15, k % 15)
      ShrBy(a, w, r) ==
        Trim([i \in 1..(Len(a) - w) |->
                (a[i + w] \div (2 ^ r)) + (Limb(a, i + w + 1) % (2 ^ r)) * (2 ^ (15 - r))])
      Shr(a, k) == ShrBy(a, k \div 15, k % 15)
      \* whether a bit of a below bit k is set
      LowBitsOf(a, w, r) ==
        \/ \E i \in 1..Min(Len(a), w) : a[i] # 0
        \/ Limb(a, w + 1) % (2 ^ r) # 0
      LowBits(a, k) == LowBitsOf(a, k \div 15, k % 15)
      \* bit k of a
      Bit(a, k) == (Limb(a, (k \div 15) + 1) \div (2 ^ (k % 15))) % 2
      RECURSIVE AddFrom(_, _, _, _, _)
      AddFrom(a, b, i, carry, acc) ==
        IF i > Len(a) /\ i > Len(b)
          THEN (IF carry = 0 THEN acc ELSE Append(acc, carry))
          ELSE AddFrom(a, b, i + 1, (Limb(a, i) + Limb(b, i) + carry) \div B,
                       Append(acc, (Limb(a, i) + Limb(b, i) + carry) % B))
      \* a - b for a >= b
      RECURSIVE SubFrom(_, _, _, _, _)
      SubFrom(a, b, i, borrow, acc) ==
        IF i > Len(a) THEN Trim(acc)
        ELSE SubFrom(a, b, i + 1, IF a[i] - Limb(b, i) - borrow < 0 THEN 1 ELSE 0,
                     Append(acc, (a[i] - Limb(b, i) - borrow + B) % B))
      \* -1, 0 or 1 as a is below, equal to or above b
      Cmp(a, b) ==
        IF Len(a) # Len(b) THEN (IF Len(a) < Len(b) THEN -1 ELSE 1)
        ELSE IF a = b THEN 0
        ELSE IF \E i \in 1..Len(a) : a[i] < b[i] /\ \A j \in (i + 1)..Len(a) : a[j] = b[j]
          THEN -1
        ELSE 1
      \* a * k for a limb k
      RECURSIVE MulLimbFrom(_, _, _, _, _)
      MulLimbFrom(a, k, i, carry, acc) ==
        IF i > Len(a) THEN Trim(IF carry = 0 THEN acc ELSE Append(acc, carry))
        ELSE MulLimbFrom(a, k, i + 1, (a[i] * k + carry) \div B,
                         Append(acc, (a[i] * k + carry) % B))
      RECURSIVE MulFrom(_, _, _, _)
      MulFrom(a, b, i, acc) ==
        IF i > Len(b) THEN acc
        ELSE MulFrom(a, b, i + 1,
                     AddFrom(acc, [j \in 1..(i - 1) |-> 0] \o MulLimbFrom(a, b[i], 1, 0, <<>>),
                             1, 0, <<>>))
      \* quotient and remainder of a over d, the top limb of d at least B / 2:
      \* each limb of the quotient is estimated from the top limbs of the
      \* remainder and lowered while it is too large
      RECURSIVE Lower(_, _, _)
      Lower(r, d, q) ==
        IF Cmp(MulLimbFrom(d, q, 1, 0, <<>>), r) > 0 THEN Lower(r, d, q - 1) ELSE q
      RECURSIVE DivFrom(_, _, _, _, _)
      RECURSIVE DivDigit(_, _, _, _, _)
      RECURSIVE DivStep(_, _, _, _, _, _)
      DivFrom(a, d, i, r, acc) ==
        IF i = 0 THEN [q |-> Trim(acc), r |-> r]
        ELSE DivDigit(a, d, i, Trim(<<a[i]>> \o r), acc)
      DivDigit(a, d, i, r, acc) ==
        DivStep(a, d, i, r,
                Lower(r, d, Min(B - 1, (Limb(r, Len(d) + 1) * B + Limb(r, Len(d))) \div d[Len(d)])),
                acc)
      DivStep(a, d, i, r, q, acc) ==
        DivFrom(a, d, i - 1, SubFrom(r, MulLimbFrom(d, q, 1, 0, <<>>), 1, 0, <<>>), <<q>> \o acc)
      Quotient(neg, qr, e) == [neg |-> neg, n |-> qr.q, e |-> e, sticky |-> qr.r # <<>>]
      \* quotient and remainder of a over a divisor of the one limb d
      RECURSIVE ShortFrom(_, _, _, _, _)
      ShortFrom(a, d, i, r, acc) ==
        IF i = 0 THEN [q |-> Trim(acc), r |-> IF r = 0 THEN <<>> ELSE <<r>>]
        ELSE ShortFrom(a, d, i - 1, (r * B + a[i]) % d, <<(r * B + a[i]) \div d>> \o acc)
      Divide(neg, a, d, e) ==
        Quotient(neg,
                 IF Len(d) = 1 THEN ShortFrom(a, d[1], Len(a), 0, <<>>)
                 ELSE DivFrom(a, d, Len(a), <<>>, <<>>),
                 e)
      \* the significands of a and b at the lower of their exponents
      Aligned(a, b) == [v \in {a, b} |-> Shl(v.m, v.e - Min(a.e, b.e))]
      \* the exact sum of a and b, of significands am and bm at exponent e
      Sum(a, am, b, bm, e) ==
        IF a.neg = b.neg
          THEN [neg |-> a.neg, n |-> AddFrom(am, bm, 1, 0, <<>>), e |-> e, sticky |-> FALSE]
        ELSE IF am = bm THEN [neg |-> FALSE, n |-> <<>>, e |-> e, sticky |-> FALSE]
        ELSE [neg |-> IF Cmp(am, bm) > 0 THEN a.neg ELSE b.neg,
              n |-> SubFrom(IF Cmp(am, bm) > 0 THEN am ELSE bm,
                            IF Cmp(am, bm) > 0 THEN bm ELSE am, 1, 0, <<>>),
              e |-> e, sticky |-> FALSE]
      SumAt(a, b, at) == Sum(a, at[a], b, at[b], Min(a.e, b.e))
      \* a + b for |b| below 2^-60 |a|, a.m shifted to 56 bits or more: b only
      \* decides the rounding
      Beside(a, b, k) ==
        [neg |-> a.neg,
         n |-> IF a.neg = b.neg THEN Shl(a.m, k) ELSE SubFrom(Shl(a.m, k), <<1>>, 1, 0, <<>>),
         e |-> a.e - k, sticky |-> TRUE]
      \* a / b to 55 bits or more, a divisor of several limbs shifted to a top limb
      \* of B / 2 or more
      Scaled(p) == Shl(p[1], p[2])
      DivideBy(neg, a, b, s, norm) ==
        Divide(neg, Scaled(<<a.m, s + norm>>), Scaled(<<b.m, norm>>), a.e - b.e - s)
      \* the exact result n * 2^e, plus a fraction of 2^e when sticky
      \* of a and b, whose significands have abits and bbits bits
      Exact(a, b, abits, bbits) ==
        CASE op = "*" ->
               [neg |-> a.neg # b.neg, n |-> MulFrom(a.m, b.m, 1, <<>>), e |-> a.e + b.e,
                sticky |-> FALSE]
          [] op = "/" ->
               DivideBy(a.neg # b.neg, a, b, Max(0, 55 + bbits - abits),
                        IF Len(b.m) = 1 THEN 0 ELSE (15 * Len(b.m)) - bbits)
          [] op = "+" ->
               IF abits + a.e > bbits + b.e + 60 \/ bbits + b.e > abits + a.e + 60
                 THEN Beside(IF abits + a.e > bbits + b.e THEN a ELSE b,
                             IF abits + a.e > bbits + b.e THEN b ELSE a,
                             Max(0, 56 - (IF abits + a.e > bbits + b.e THEN abits ELSE bbits)))
               ELSE SumAt(a, b, Aligned(a, b))
      \* the Number of significand m and exponent e; m is made odd
      Odd(neg, m, e, zeros) ==
        IF BitLen(m) + e > 1024 THEN <<IF neg THEN -1 ELSE 1, 0>>
        ELSE Some([neg |-> neg, m |-> Shr(m, zeros), e |-> e + zeros])
      \* the zero bits below the lowest set bit of m, which is in limb i
      ZerosBelow(m, i) ==
        15 * (i - 1) + (CHOOSE r \in 0..14 : m[i] % (2 ^ r) = 0 /\ m[i] % (2 ^ (r + 1)) # 0)
      Finite(neg, m, e) ==
        IF m = <<>> THEN Some([neg |-> neg, m |-> <<>>, e |-> 0])
        ELSE Odd(neg, m, e,
                 ZerosBelow(m, CHOOSE i \in 1..Len(m) : m[i] # 0 /\ \A j \in 1..(i - 1) : m[j] = 0))
      \* the exact result rounded at bit shift: to 53 bits, fewer below 2^-1022
      Rounded(z, shift, keep) ==
        Finite(z.neg,
               IF shift <= 0 THEN z.n
               ELSE IF /\ Bit(z.n, shift - 1) = 1
                       /\ (z.sticky \/ LowBits(z.n, shift - 1) \/ Limb(keep, 1) % 2 = 1)
                 THEN AddFrom(keep, <<1>>, 1, 0, <<>>)
               ELSE keep,
               z.e + Max(shift, 0))
      RoundAt(z, shift) == Rounded(z, shift, Shr(z.n, Max(shift, 0)))
      Round(z) == RoundAt(z, Max(BitLen(z.n) + z.e - 53, -1074) - z.e)
      IsInf(v) == Len(v) = 2 /\ v[1] # 0
      Neg(v) == IF IsInf(v) THEN v[1] < 0 ELSE Val(v).neg
      IsZero(v) == IsFiniteNumber(v) /\ Val(v).m = <<>>
      CmpAt(a, b, at) == Cmp(at[a], at[b])
      \* -1, 0 or 1 as |a| is below, equal to or above |b|
      CmpTop(a, b, atop, btop) ==
        IF atop # btop THEN (IF atop < btop THEN -1 ELSE 1)
        ELSE CmpAt(a, b, Aligned(a, b))
      CmpAbs(a, b) ==
        IF a.m = <<>> \/ b.m = <<>> THEN Cmp(a.m, b.m)
        ELSE CmpTop(a, b, BitLen(a.m) + a.e, BitLen(b.m) + b.e)
      Compare(a, b) ==
        IF IsInf(a) \/ IsInf(b)
          THEN (IF IsInf(a) THEN a[1] ELSE 0) - (IF IsInf(b) THEN b[1] ELSE 0)
        ELSE IF IsZero(a) /\ IsZero(b) THEN 0
        ELSE IF Neg(a) # Neg(b) THEN (IF Neg(a) THEN -1 ELSE 1)
        ELSE CmpAbs(Val(IF Neg(a) THEN b ELSE a), Val(IF Neg(a) THEN a ELSE b))
      Sign(neg) == Some([neg |-> neg, m |-> <<>>, e |-> 0])
  IN  IF op \in {"<", "<="}
        THEN x # NaN /\ y # NaN /\ Compare(x, y) < (IF op = "<" THEN 0 ELSE 1)
      ELSE IF x = NaN \/ y = NaN THEN NaN
      ELSE IF IsInf(x) \/ IsInf(y)
        THEN CASE op = "*" -> IF IsZero(x) \/ IsZero(y) THEN NaN
                              ELSE <<IF Neg(x) # Neg(y) THEN -1 ELSE 1, 0>>
               [] op = "/" -> IF IsInf(x) /\ IsInf(y) THEN NaN
                              ELSE IF IsInf(x) THEN <<IF Neg(x) # Neg(y) THEN -1 ELSE 1, 0>>
                              ELSE Sign(Neg(x) # Neg(y))
               [] op = "+" -> IF IsInf(x) /\ IsInf(y) /\ x # y THEN NaN
                              ELSE IF IsInf(x) THEN x ELSE y
      ELSE IF op = "/" /\ IsZero(y)
        THEN (IF IsZero(x) THEN NaN ELSE <<IF Neg(x) # Neg(y) THEN -1 ELSE 1, 0>>)
      ELSE IF op = "+" /\ (IsZero(x) \/ IsZero(y))
        THEN (IF IsZero(x) /\ IsZero(y) THEN Sign(Neg(x) /\ Neg(y))
              ELSE IF IsZero(x) THEN y ELSE x)
      ELSE IF IsZero(x) \/ IsZero(y) THEN Sign(Neg(x) # Neg(y))
      ELSE Round(Exact(Val(x), Val(y), BitLen(Val(x).m), BitLen(Val(y).m)))

\* ethMin and ethMax are integer literals, aprBoost decimal literals (0.075 is
\* the double nearest to 75 / 1000)
IMP_TIER_TABLE ==
  LET Tier(t) ==
        [ethMin |-> Float64FromInt(t[1]), ethMax |-> Float64FromInt(t[2]),
         aprBoost |-> Float64("/", Float64FromInt(t[3]), Float64FromInt(t[4]))]
      literals == << <<32, 4000000, 75, 1000>>,
                     <<4000032, 4800000, 6, 100>>,
                     <<4800032, 5600000, 5, 100>>,
                     <<5600032, 6400000, 425, 10000>>,
                     <<6400032, 7200000, 35, 1000>>,
                     <<7200032, 8000000, 3, 100>>,
                     <<8000032, 9600000, 25, 1000>> >>
  IN  [i \in 1..7 |-> Tier(literals[i])]

\* IMP_TIER_TABLE.find(...)?.aprBoost, null without a matching tier or when
\* finalStakedEth is no finite number above 0
impTierBoostMultiplier(finalStakedEth) ==
  LET \* finalStakedEth >= tier.ethMin && finalStakedEth <= tier.ethMax
      Matches(tier) ==
        \A bounds \in {<<tier.ethMin, finalStakedEth>>, <<finalStakedEth, tier.ethMax>>} :
          Float64("<=", bounds[1], bounds[2])
      \* the aprBoost of the first tier from tier i on that matches
      RECURSIVE Find(_, _)
      Find(table, i) ==
        IF i > Len(table) THEN None
        ELSE IF Matches(table[i]) THEN table[i].aprBoost
        ELSE Find(table, i + 1)
  IN  IF ~IsFiniteNumber(finalStakedEth) \/ Float64("<=", finalStakedEth, Float64FromInt(0))
        THEN None
      ELSE Find(IMP_TIER_TABLE, 1)

\* finalStakedEth / 32
totalValidators(finalStakedEth) ==
  IF ~IsFiniteNumber(finalStakedEth) THEN None
  ELSE Float64("/", finalStakedEth, Float64FromInt(32))

\* ssvTotalSupply * impMaxInflationDecimal, with impMaxInflationDecimal =
\* impMaxInflationPercent / 100
impInflationCapSsv(ssvTotalSupply) ==
  IF ~IsFiniteNumber(ssvTotalSupply) THEN None
  ELSE Float64("*", ssvTotalSupply,
               Float64("/", Float64FromInt(IMP_MAX_INFLATION_PERCENT), Float64FromInt(100)))

\* (finalStakedEth * finalEthAprDecimal * finalEthPrice * impTierBoostMultiplier)
\* / finalSsvPrice, null unless each of the five is not null and above 0
impYearlyRequirementSsv(w) ==
  LET \* the product of the first n factors, multiplied from left to right
      RECURSIVE Product(_, _)
      Product(factors, n) ==
        IF n = 1 THEN factors[1]
        ELSE Float64("*", Product(factors, n - 1), factors[n])
      Requirement(inputs) ==
        IF \A i \in 1..5 : ~IsNull(inputs[i]) /\ Float64("<", Float64FromInt(0), inputs[i])
          THEN Float64("/", Product(inputs, 4), inputs[5])
          ELSE None
  IN  Requirement(<<w.finalStakedEth, w.finalEthAprDecimal, w.finalEthPrice,
                    impTierBoostMultiplier(w.finalStakedEth), w.finalSsvPrice>>)

impYearlySsvState(w) ==
  LET State(requirement, cap) ==
        IF IsNull(requirement) THEN [value |-> None, source |-> None]
        ELSE IF IsNull(cap) THEN [value |-> requirement, source |-> Some("market")]
        ELSE IF Float64("<=", requirement, cap)
          THEN [value |-> requirement, source |-> Some("market")]
        ELSE [value |-> cap, source |-> Some("inflation")]
  IN  State(impYearlyRequirementSsv(w), impInflationCapSsv(w.ssvTotalSupply))

\* the ranges of the four sliders, in percent of the baseline
DEFAULT_SLIDER_DELTA_RANGES ==
  [ethPrice |-> [min |-> -100, max |-> 200], ssvPrice |-> [min |-> -100, max |-> 2000],
   stakedEth |-> [min |-> -100, max |-> 200], networkFee |-> [min |-> -100, max |-> 500]]

\* a range of a body or of the environment (null, or min and max each a
\* number or not): a bound that is no finite number is taken from defaults,
\* and so is the whole range when it is no object or its min exceeds its max
normalizeRange(range, defaults) ==
  LET Candidate(bound, fallback) == IF IsFiniteNumber(bound) THEN Val(bound) ELSE fallback
      Checked(minCandidate, maxCandidate) ==
        IF minCandidate > maxCandidate THEN defaults
        ELSE [min |-> minCandidate, max |-> maxCandidate]
  IN  IF IsNull(range) THEN defaults
      ELSE Checked(Candidate(Val(range).min, defaults.min), Candidate(Val(range).max, defaults.max))

\* resolveInitialRange of a build that sets no VITE_*_DELTA_MIN or _MAX:
\* readEnvNumber is null for both bounds
INITIAL_SLIDER_DELTA_RANGES ==
  [slider \in DOMAIN DEFAULT_SLIDER_DELTA_RANGES |->
     normalizeRange(Some([min |-> None, max |-> None]), DEFAULT_SLIDER_DELTA_RANGES[slider])]

\* Math.min(Math.max(value, min), max)
clamp(value, min, max) ==
  LET Math_min(a, b) == IF a < b THEN a ELSE b
      Math_max(a, b) == IF a > b THEN a ELSE b
  IN  Math_min(Math_max(value, min), max)

\* baseline * (1 + deltaPct / 100), null unless the baseline is a number
computeAdjustedValue(baseline, deltaPct) ==
  IF ~IsNumber(baseline) THEN None
  ELSE Float64("*", baseline,
               Float64("+", Float64FromInt(1),
                       Float64("/", Float64FromInt(deltaPct), Float64FromInt(100))))

\* the render of App: the inputs of the IMP tab derived from the state (an
\* adjusted value, else the baseline; the APR percent over 100), then Yearly IMP
App(w) ==
  LET \* adjusted ?? (Number.isFinite(baseline) ? baseline : null)
      Final(adjusted, baseline) ==
        IF ~IsNull(adjusted) THEN adjusted
        ELSE IF IsFiniteNumber(baseline) THEN baseline
        ELSE None
      baselines == [stakedEth |-> w.stakedEthBaseline, ethPrice |-> w.ethPriceBaseline,
                    ssvPrice |-> w.ssvPriceBaseline]
      deltas == [stakedEth |-> w.stakedEthDeltaPct, ethPrice |-> w.ethPriceDeltaPct,
                 ssvPrice |-> w.ssvPriceDeltaPct]
      finals == [input \in DOMAIN baselines |->
                   Final(computeAdjustedValue(baselines[input], deltas[input]), baselines[input])]
      Shown(final) == [final EXCEPT !.impYearlySsvState = impYearlySsvState(final)]
      Derived(values) ==
        Shown([w EXCEPT
                 !.finalStakedEth = values.stakedEth,
                 !.finalEthPrice = values.ethPrice,
                 !.finalSsvPrice = values.ssvPrice,
                 !.finalEthAprDecimal =
                    IF IsFiniteNumber(w.ethAprPercent)
                      THEN Float64("/", w.ethAprPercent, Float64FromInt(100))
                      ELSE None])
  IN  Derived(finals)

\* the state of App before its effect has run: snapshot, loading, error, the
\* baselines and the slider deltas as useState sets them, what the first render
\* derives from them, and no run of the effect yet.  effects lists the closures
\* of the runs of the effect, requestsSent and refreshTicks count the calls of
\* fetchMarketSnapshot and the callbacks of the interval.  The deltas and the
\* bounds of their ranges are whole percents.
InitialWebapp ==
  App([snapshot |-> None, loading |-> FALSE, error |-> None,
       deltaRanges |-> INITIAL_SLIDER_DELTA_RANGES,
       ethAprPercent |-> None, ethPriceBaseline |-> None, ssvPriceBaseline |-> None,
       stakedEthBaseline |-> None, ssvTotalSupply |-> None,
       ethPriceDeltaPct |-> clamp(0, INITIAL_SLIDER_DELTA_RANGES.ethPrice.min,
                                  INITIAL_SLIDER_DELTA_RANGES.ethPrice.max),
       ssvPriceDeltaPct |-> clamp(0, INITIAL_SLIDER_DELTA_RANGES.ssvPrice.min,
                                  INITIAL_SLIDER_DELTA_RANGES.ssvPrice.max),
       stakedEthDeltaPct |-> clamp(0, INITIAL_SLIDER_DELTA_RANGES.stakedEth.min,
                                   INITIAL_SLIDER_DELTA_RANGES.stakedEth.max),
       networkFeeDeltaPct |-> clamp(0, INITIAL_SLIDER_DELTA_RANGES.networkFee.min,
                                    INITIAL_SLIDER_DELTA_RANGES.networkFee.max),
       liveNetworkFeeDecimal |-> None,
       finalStakedEth |-> None, finalEthAprDecimal |-> None, finalEthPrice |-> None,
       finalSsvPrice |-> None, impYearlySsvState |-> [value |-> None, source |-> None],
       MARKET_REFRESH_INTERVAL_MS |-> 5 * 60 * 1000,
       effects |-> <<>>, requestsSent |-> 0, refreshTicks |-> 0])

(***************************************************************************)
(* Values of a JSON payload and their conversion by Number(...).           *)
(***************************************************************************)
JsNumber(n) == [type |-> "number", num |-> n, text |-> <<>>, bool |-> FALSE, items |-> <<>>]
JsString(t) == [type |-> "string", num |-> None, text |-> t, bool |-> FALSE, items |-> <<>>]
JsBoolean(b) == [type |-> "boolean", num |-> None, text |-> <<>>, bool |-> b, items |-> <<>>]
JsObject == [type |-> "object", num |-> None, text |-> <<>>, bool |-> FALSE, items |-> <<>>]
JsArray(items) == [type |-> "array", num |-> None, text |-> <<>>, bool |-> FALSE, items |-> items]
JsNull == [type |-> "null", num |-> None, text |-> <<>>, bool |-> FALSE, items |-> <<>>]

\* Number(text): white space and line terminators at both ends are dropped
\* (tab, line feed, vertical tab, form feed, carriage return, space, no-break
\* space, the byte order mark, the space separators and the line and paragraph
\* separators; a character that no string of a module can hold is an element
\* of the text under its name U+XXXX); the
\* empty text is 0; 0x, 0o and 0b introduce unsigned digits of radix 16, 8 and
\* 2; otherwise an optional sign is followed by Infinity or by decimal digits
\* with an optional point and an optional exponent; any other text is NaN.
\* Finite values are exact fractions.
StringToNumber(text) ==
  LET WhiteSpace ==
        {" ", "\t", "\n", "\r", "\f", "", " ", "﻿", " ",
         "U+2000", "U+2001", "U+2002", "U+2003", "U+2004", "U+2005", "U+2006", "U+2007",
         "U+2008", "U+2009", "U+200A", "U+2028", "U+2029", "U+202F", "U+205F", "U+3000"}
      Lower == <<"0", "1", "2", "3", "4", "5", "6", "7", "8", "9", "a", "b", "c", "d", "e", "f">>
      Upper == <<"0", "1", "2", "3", "4", "5", "6", "7", "8", "9", "A", "B", "C", "D", "E", "F">>
      RECURSIVE TrimStart(_), TrimEnd(_), MathematicalValue(_, _), Pow10(_)
      TrimStart(t) == IF t # <<>> /\ t[1] \in WhiteSpace THEN TrimStart(Tail(t)) ELSE t
      TrimEnd(t) ==
        IF t # <<>> /\ t[Len(t)] \in WhiteSpace THEN TrimEnd(SubSeq(t, 1, Len(t) - 1)) ELSE t
      DigitOf(ch) ==
        IF \E i \in 1..16 : Lower[i] = ch THEN (CHOOSE i \in 1..16 : Lower[i] = ch) - 1
        ELSE IF \E i \in 1..16 : Upper[i] = ch THEN (CHOOSE i \in 1..16 : Upper[i] = ch) - 1
        ELSE 16
      IsDigits(t, radix) == \A i \in 1..Len(t) : DigitOf(t[i]) < radix
      MathematicalValue(t, radix) ==
        IF t = <<>> THEN 0
        ELSE MathematicalValue(SubSeq(t, 1, Len(t) - 1), radix) * radix + DigitOf(t[Len(t)])
      Pow10(k) == IF k = 0 THEN 1 ELSE 10 * Pow10(k - 1)
      First(t, chars) ==
        IF \E i \in 1..Len(t) : t[i] \in chars
          THEN CHOOSE i \in 1..Len(t) : t[i] \in chars /\ \A j \in 1..(i - 1) : t[j] \notin chars
          ELSE Len(t) + 1
      Radix(t) ==
        IF Len(t) < 2 \/ t[1] # "0" THEN 10
        ELSE IF t[2] \in {"x", "X"} THEN 16
        ELSE IF t[2] \in {"o", "O"} THEN 8
        ELSE IF t[2] \in {"b", "B"} THEN 2
        ELSE 10
      NonDecimalIntegerLiteral(t, radix) ==
        LET digits == SubSeq(t, 3, Len(t))
        IN  IF digits # <<>> /\ IsDigits(digits, radix)
              THEN Some(RatInt(MathematicalValue(digits, radix)))
              ELSE NaN
      StrUnsignedDecimalLiteral(t, negative) ==
        LET e == First(t, {"e", "E"})
            mantissa == SubSeq(t, 1, e - 1)
            exponent == SubSeq(t, e + 1, Len(t))
            exponentSigned == exponent # <<>> /\ exponent[1] \in {"+", "-"}
            exponentDigits == IF exponentSigned THEN Tail(exponent) ELSE exponent
            point == First(mantissa, {"."})
            digits == SubSeq(mantissa, 1, point - 1) \o SubSeq(mantissa, point + 1, Len(mantissa))
            fractionDigits == IF point > Len(mantissa) THEN 0 ELSE Len(mantissa) - point
            exponentValue ==
              IF exponentSigned /\ exponent[1] = "-" THEN 0 - MathematicalValue(exponentDigits, 10)
              ELSE MathematicalValue(exponentDigits, 10)
            scale == exponentValue - fractionDigits
            magnitude == (IF negative THEN -1 ELSE 1) * MathematicalValue(digits, 10)
        IN  IF t = <<"I", "n", "f", "i", "n", "i", "t", "y">> THEN NotFinite
            ELSE IF digits = <<>> \/ ~IsDigits(digits, 10) THEN NaN
            ELSE IF e <= Len(t) /\ (exponentDigits = <<>> \/ ~IsDigits(exponentDigits, 10)) THEN NaN
            ELSE IF scale >= 0 THEN Some(RatInt(magnitude * Pow10(scale)))
            ELSE Some(Rat(magnitude, Pow10(0 - scale)))
      StrNumericLiteral(t) ==
        IF t = <<>> THEN Some(RatInt(0))
        ELSE IF Radix(t) # 10 THEN NonDecimalIntegerLiteral(t, Radix(t))
        ELSE IF t[1] \in {"+", "-"} THEN StrUnsignedDecimalLiteral(Tail(t), t[1] = "-")
        ELSE StrUnsignedDecimalLiteral(t, FALSE)
  IN  StrNumericLiteral(TrimEnd(TrimStart(text)))

\* Number(v): a number is itself, a string is read by StringToNumber, true is 1,
\* false and null are 0, an array is read as its text (the texts of its
\* elements joined by commas, null for the empty text), undefined and any other
\* object of the payload are NaN
NumberOf(v) ==
  LET Digit == <<"0", "1", "2", "3", "4", "5", "6", "7", "8", "9">>
      RECURSIVE NumberToString(_), TextOf(_), Join(_)
      NumberToString(n) ==
        IF n < 0 THEN <<"-">> \o NumberToString(0 - n)
        ELSE IF n < 10 THEN <<Digit[n + 1]>>
        ELSE NumberToString(n \div 10) \o <<Digit[(n % 10) + 1]>>
      TextOf(x) ==
        CASE x.type = "number" ->
               IF IsFiniteNumber(x.num) THEN NumberToString(Val(x.num))
               ELSE IF x.num = NaN THEN <<"N", "a", "N">>
               ELSE <<"I", "n", "f", "i", "n", "i", "t", "y">>
          [] x.type = "string" -> x.text
          [] x.type = "boolean" ->
               IF x.bool THEN <<"t", "r", "u", "e">> ELSE <<"f", "a", "l", "s", "e">>
          [] x.type = "array" -> Join(x.items)
          [] x.type = "null" -> <<>>
          [] OTHER -> <<"[", "o", "b", "j", "e", "c", "t", " ", "O", "b", "j", "e", "c", "t", "]">>
      Join(items) ==
        IF items = <<>> THEN <<>>
        ELSE IF Len(items) = 1 THEN TextOf(items[1])
        ELSE TextOf(items[1]) \o <<",">> \o Join(Tail(items))
  IN  CASE v.type = "number" -> IF IsFiniteNumber(v.num) THEN Some(RatInt(Val(v.num))) ELSE v.num
        [] v.type = "string" -> StringToNumber(v.text)
        [] v.type = "boolean" -> Some(RatInt(IF v.bool THEN 1 ELSE 0))
        [] v.type = "null" -> Some(RatInt(0))
        [] v.type = "array" -> StringToNumber(Join(v.items))
        [] OTHER -> NaN

\* response.data of the stake-total endpoint: an object carrying
\* total_effective_balance, or a bare value
FieldPayload(v) == [shape |-> "field", raw |-> v]
BarePayload(v) == [shape |-> "bare", raw |-> v]

Quote(close, price) == [close |-> close, price |-> price]

\* response.data of the quotes endpoint, stamped by the upstream
\* (status.timestamp) in the 12 hour unit of the local clock
PricePayloads(nowMs) ==
  { [timestamp |-> Some(nowMs),
     quotes |-> [ETH |-> Quote(Some(3000), Some(3100)), SSV |-> Quote(Some(40), Some(41))]] }

\* the same responses in the specification of the closing window: stamped in the
\* unit of the local clock or, just before the turn, in the unit before, or
\* with 0050-05-15T00:00:00.000Z, or without a timestamp
WindowPricePayloads(nowMs) ==
  { [timestamp |-> timestamp,
     quotes |-> [ETH |-> Quote(Some(3000), Some(3100)), SSV |-> Quote(Some(40), Some(41))]] :
      timestamp \in {Some(nowMs), Some(nowMs - 1), Some(-1440978), None} }

\* response.data.data of the ETH.Store endpoint
AprPayloads ==
  { [numeric |-> None, avgapr31d |-> Some(Rat(4, 100)), apr |-> Some(Rat(5, 100)),
     apr_today |-> None],
    [numeric |-> None, avgapr31d |-> None, apr |-> None, apr_today |-> None] }

\* responses of the quotes endpoint in the specification of the price adapter:
\* in quote.USD of ETH close and price are present or absent, zero, negative,
\* not finite
QuotePayloads(nowMs) ==
  { [timestamp |-> Some(nowMs), quotes |-> [ETH |-> Quote(close, price), SSV |-> ssv]] :
      close \in {None, Some(3000), Some(0), NotFinite},
      price \in {None, Some(3100), Some(-5), NotFinite},
      ssv \in {Quote(Some(40), Some(41)), Quote(None, None)} }

\* response.data.data of the ETH.STORE endpoint: a bare number, or an object
\* with any of the three named fields holding a number
AprInputs ==
  { [numeric |-> Some(Rat(3, 100)), avgapr31d |-> None, apr |-> None, apr_today |-> None] }
  \cup
  { [numeric |-> None, avgapr31d |-> avg, apr |-> apr, apr_today |-> today] :
      avg \in {None, Some(Rat(4, 100))}, apr \in {None, Some(Rat(5, 100))},
      today \in {None, Some(Rat(6, 100))} }

\* total effective balance in gwei (None: a payload without a numeric value)
StakedEthPayloads == { FieldPayload(JsNumber(Some(1500000000))) }

\* responses of the stake-total endpoint in the specification of its adapter:
\* the balance as a number; as the text of an integer, of a fraction, of a
\* signed, a padded, an exponent and a hexadecimal literal; as an empty, a blank
\* or a non-numeric text, or padded with a vertical tab, a no-break space, a
\* byte order mark or an ideographic space; as a boolean, as an object, as an
\* array, missing; and the bare forms of the payload
StakedEthInputs ==
  { FieldPayload(v) : v \in { JsNumber(Some(1500000000)), JsNumber(Some(0)), JsNumber(NotFinite),
                              JsString(<<"1", "5">>), JsString(<<"1", ".", "5">>),
                              JsString(<<"-", "5">>), JsString(<<" ", "1", "5", " ">>),
                              JsString(<<"1", "e", "3">>), JsString(<<"0", "x", "1", "0">>),
                              JsString(<<"I", "n", "f", "i", "n", "i", "t", "y">>),
                              JsString(<<>>), JsString(<<" ">>), JsString(<<"n", "/", "a">>),
                              JsString(<<"", "1", "5">>), JsString(<<" ", "1", "5">>),
                              JsString(<<"﻿", "1", "5">>), JsString(<<"U+3000", "1", "5">>),
                              JsBoolean(TRUE), JsObject, JsNull,
                              JsArray(<<>>), JsArray(<<JsNumber(Some(15))>>),
                              JsArray(<<JsString(<<"1", "e", "9">>)>>),
                              JsArray(<<JsArray(<<JsNull>>)>>), JsArray(<<JsObject>>),
                              JsArray(<<JsNumber(Some(1)), JsNumber(Some(5))>>) } }
  \cup
  { BarePayload(v) : v \in { JsNumber(Some(32)), JsString(<<"1", "5">>), JsBoolean(TRUE), JsNull,
                            JsArray(<<JsNumber(Some(15))>>) } }

\* the return data of eth_call: its length in bytes, its first 32 byte word
\* (the fee, a uint256) and its second word (a block number); a word the data
\* is too short for is never read
ReturnData(bytes, fee, block) == [bytes |-> bytes, fee |-> fee, block |-> block]

\* the return data of getNetworkFee(): one word
RawFeePayloads == { ReturnData(32, DecNorm(38264, 7), 0) }

\* one word with a raw fee on both sides of every threshold of the decoder, and
\* return data of two words, of a length that is no multiple of 32 bytes, and
\* too short for a word
RawFeeInputs ==
  { ReturnData(32, fee, 0) :
      fee \in { DecNorm(0, 0), DecNorm(1, 0), DecNorm(100, 0), DecNorm(9999, 0), DecNorm(1, 4),
                DecNorm(5, 6), DecNorm(1, 7), DecNorm(2, 7), DecNorm(38264, 7), DecNorm(9, 17),
                DecNorm(1, 18), DecNorm(15, 17), DecNorm(5, 19), DecNorm(1, 20),
                DecNorm(2, 20), DecNorm(1, 30), DecBeside(1, 18, -1), DecBeside(1, 20, 1) } }
  \cup
  { ReturnData(64, DecNorm(38264, 7), 17000000), ReturnData(65, DecNorm(38264, 7), 17000000),
    ReturnData(33, DecNorm(38264, 7), 0), ReturnData(31, DecNorm(0, 0), 0) }

\* flat: the same close every day; ramp: closes that differ from day to day;
\* gap: flat with two days missing; empty: no quotes; halfday: flat, but the
\* quotes are 12 hours apart instead of a day
SeedShapes == {"flat", "ramp", "gap", "empty"}
SeedErrors == {"plan-1006", "other"}
\* the historical responses in the specification of overlapping cycles
OverlapSeedShapes == {"flat", "empty"}
\* the historical responses in the specification of the calendar window
WindowSeedShapes == {"flat", "halfday"}
\* the service is started on 2023-01-31 12:00, 02-01 00:00 or 03-01 00:00
WindowStartTimes == {61, 62, 118}

\* the quotes of one historical response: count daily closes ending yesterday,
\* each closing at 23:59:59.999 of its day; SeedClose is the daily close of
\* the historical endpoint, per symbol
SeedQuotes(shape, symbol, nowMs, count) ==
  LET SeedClose == [ETH |-> 3000, SSV |-> 40]
      lastDay == (nowMs \div msPerDay) - 1
      all == [k \in 1..count |->
                [close |-> Some(SeedClose[symbol]
                                + IF shape = "ramp" THEN (lastDay - count + k) % 3 ELSE 0),
                 time_close |-> Some(IF shape = "halfday"
                                       THEN lastDay * msPerDay + 1 - (count - k)
                                       ELSE (lastDay - count + k) * msPerDay + 1),
                 ms |-> 12 * 60 * 60 * 1000 - 1,
                 day |-> lastDay - count + k]]
      kept(q) == ~(shape = "gap" /\ q.day \in {lastDay - 10, lastDay - 11})
  IN  IF shape = "empty" THEN <<>> ELSE SelectSeq(all, kept)


(***************************************************************************)
(* State.                                                                  *)
(***************************************************************************)
VARIABLES
  cmcApiKey,              \* Boolean(process.env.CMC_API_KEY)
  ethStoreApiKey,         \* Boolean(process.env.ETHSTORE_API_KEY)
  mainnetProvider,        \* Boolean(mainnetProvider)
  NETWORK_FEE_PERCENT_V1, \* None for NaN, else Some(rational)
  dataState,              \* the module level cache
  hasSeededHistory,
  now,                    \* Date.now()
  cycles,                 \* the calls of fetchAllData, in start order
  started,                \* number of calls of fetchAllData so far
  ticks,                  \* number of clock steps so far
  failures,               \* number of failed responses so far
  response,               \* the answer of GET /api/prices in flight to the client
  completedSnapshot,      \* the cached values when the last cycle completed
  everSucceeded,          \* the adapters that have returned true at least once
  decodeLog,              \* every (raw, percentDecimal, scale) the fee decoder has produced
  backfillCount,          \* per symbol, how often the seeder has filled its history
  seedResponse,           \* what the last historical request came back with
  lastPayload,            \* per adapter, the payload of its last successful response
  lastAttempt,            \* per adapter, the outcome of the attempt that settled last
  webapp                  \* the state of the React component App of the web client

vars == <<cmcApiKey, ethStoreApiKey, mainnetProvider, NETWORK_FEE_PERCENT_V1, dataState,
          hasSeededHistory, now, cycles, started, ticks, failures, response,
          completedSnapshot, everSucceeded, decodeLog, backfillCount, seedResponse,
          lastPayload, lastAttempt, webapp>>

config == <<cmcApiKey, ethStoreApiKey, mainnetProvider, NETWORK_FEE_PERCENT_V1>>

Configuration(cmc, ethStore, provider, feePercent) ==
  [cmcApiKey |-> cmc, ethStoreApiKey |-> ethStore, mainnetProvider |-> provider,
   feePercent |-> feePercent]

\* the environments the service is started in: which credentials are set, and
\* NETWORK_FEE_PERCENT_V1 (0.01 when the variable is unset, NaN when it is not a number)
Configurations ==
  { Configuration(TRUE, TRUE, TRUE, Some(Rat(1, 100))),
    Configuration(TRUE, TRUE, TRUE, None),
    Configuration(FALSE, TRUE, TRUE, Some(Rat(1, 100))),
    Configuration(TRUE, FALSE, TRUE, Some(Rat(1, 100))),
    Configuration(TRUE, TRUE, FALSE, Some(Rat(1, 100))),
    Configuration(FALSE, FALSE, TRUE, Some(Rat(1, 100))),
    Configuration(FALSE, FALSE, FALSE, Some(Rat(1, 100))) }

InitialDataState ==
  [prices |-> None,
   stakingApr |-> None,
   stakedEth |-> None,
   networkFee |-> None,
   lastUpdated |-> None,
   lastCmcTimestamp |-> None,
   priceHistory |-> [symbol \in Symbols |-> <<>>],
   nextMonthFeeProjection |-> None,
   lastFetchError |-> [a \in Adapters |-> None]]

IdleCycle ==
  [pc |-> "idle", res |-> [a \in Adapters |-> "none"],
   seedIdx |-> 0, seedTry |-> 0, addedAny |-> FALSE]

\* the value fields a client can see
Snapshot(ds) ==
  [prices |-> ds.prices, stakingApr |-> ds.stakingApr, stakedEth |-> ds.stakedEth,
   networkFee |-> ds.networkFee, nextMonthFeeProjection |-> ds.nextMonthFeeProjection,
   lastUpdated |-> ds.lastUpdated]

InitFrom(configurations, startTimes) ==
  /\ \E cfg \in configurations :
       /\ cmcApiKey = cfg.cmcApiKey
       /\ ethStoreApiKey = cfg.ethStoreApiKey
       /\ mainnetProvider = cfg.mainnetProvider
       /\ NETWORK_FEE_PERCENT_V1 = cfg.feePercent
  /\ dataState = InitialDataState
  /\ hasSeededHistory = FALSE
  /\ now \in startTimes
  /\ cycles = [c \in 1..MaxOverlapCycles |-> IdleCycle]
  /\ started = 0
  /\ ticks = 0
  /\ failures = 0
  /\ response = None
  /\ completedSnapshot = Snapshot(InitialDataState)
  /\ everSucceeded = {}
  /\ decodeLog = {}
  /\ backfillCount = [symbol \in Symbols |-> 0]
  /\ seedResponse = "none"
  /\ lastPayload = [a \in Adapters |-> None]
  /\ lastAttempt = [a \in Adapters |-> "none"]
  /\ webapp = InitialWebapp

InitAt(startTimes) == InitFrom(Configurations, startTimes)

Init == InitAt({StartTime})

(***************************************************************************)
(* Source adapters: the synchronous prefix (missing credential), the       *)
(* continuation after a successful response and the catch block of each.   *)
(***************************************************************************)
ErrorEntry(code, message, timestamp) ==
  [code |-> code, message |-> message, timestamp |-> timestamp]

HasErrorCode(slot, code) == ~IsNull(slot) /\ Val(slot).code = code

\* if (!cmcApiKey) { ... return false }
FetchLatestPricesMissingKey(ds, nowMs) ==
  IF ~HasErrorCode(ds.lastFetchError["prices"], "MISSING_API_KEY")
    THEN [ds EXCEPT !.lastFetchError["prices"] =
            Some(ErrorEntry("MISSING_API_KEY", "CoinMarketCap API key is not configured.", nowMs))]
    ELSE ds

\* priceUsd: close when it is a finite number, else price when it is a number, else null
\* a mutation of QuotePriceUsd: the live price is preferred over the close
QuotePriceUsd_PrefersLive(quote) ==
  IF IsNumber(quote.price) THEN quote.price
  ELSE IF IsFiniteNumber(quote.close) THEN quote.close
  ELSE None

QuotePriceUsd(quote) ==
  IF IsFiniteNumber(quote.close) THEN quote.close
  ELSE IF IsNumber(quote.price) THEN quote.price
  ELSE None

\* a mutation of FetchLatestPricesThen: the error slot is left as it was
FetchLatestPricesThen_KeepsError(ds, payload, nowMs) ==
  LET prices == Some([symbol \in Symbols |->
                        [symbol |-> symbol, priceUsd |-> QuotePriceUsd(payload.quotes[symbol])]])
  IN  [ds EXCEPT !.lastCmcTimestamp = IF IsNull(payload.timestamp) THEN @ ELSE payload.timestamp,
                 !.prices = prices,
                 !.priceHistory = addPriceHistory(ds.priceHistory, prices, nowMs)]

FetchLatestPricesThen(ds, payload, nowMs) ==
  LET prices == Some([symbol \in Symbols |->
                        [symbol |-> symbol, priceUsd |-> QuotePriceUsd(payload.quotes[symbol])]])
  IN  [ds EXCEPT !.lastCmcTimestamp = IF IsNull(payload.timestamp) THEN @ ELSE payload.timestamp,
                 !.prices = prices,
                 !.lastFetchError["prices"] = None,
                 !.priceHistory = addPriceHistory(ds.priceHistory, prices, nowMs)]

\* a mutation of FetchLatestPricesCatch: the failure also drops the cached quotes
FetchLatestPricesCatch_ClearsValue(ds, message, nowMs) ==
  [ds EXCEPT !.prices = None,
             !.lastFetchError["prices"] = Some(ErrorEntry("FETCH_FAILED", message, nowMs))]

FetchLatestPricesCatch(ds, message, nowMs) ==
  [ds EXCEPT !.lastFetchError["prices"] = Some(ErrorEntry("FETCH_FAILED", message, nowMs))]

\* a mutation of FetchEthStakingAprMissingKey: the entry is written in every cycle
FetchEthStakingAprMissingKey_Rewrites(ds, nowMs) ==
  [ds EXCEPT !.lastFetchError["stakingApr"] =
     Some(ErrorEntry("MISSING_API_KEY", "ETH.Store API key is not configured.", nowMs))]

FetchEthStakingAprMissingKey(ds, nowMs) ==
  IF ~HasErrorCode(ds.lastFetchError["stakingApr"], "MISSING_API_KEY")
    THEN [ds EXCEPT !.lastFetchError["stakingApr"] =
            Some(ErrorEntry("MISSING_API_KEY", "ETH.Store API key is not configured.", nowMs))]
    ELSE ds

\* a mutation of FetchEthStakingAprThen: the instantaneous apr is tried before the average
FetchEthStakingAprThen_AprFirst(ds, payload, nowMs) ==
  LET picked ==
        IF ~IsNull(payload.numeric)
          THEN [value |-> payload.numeric, sourceField |-> Some("numeric_payload")]
        ELSE IF ~IsNull(payload.apr)
          THEN [value |-> payload.apr, sourceField |-> Some("apr")]
        ELSE IF ~IsNull(payload.avgapr31d)
          THEN [value |-> payload.avgapr31d, sourceField |-> Some("avgapr31d")]
        ELSE IF ~IsNull(payload.apr_today)
          THEN [value |-> payload.apr_today, sourceField |-> Some("apr_today")]
        ELSE [value |-> None, sourceField |-> None]
  IN  [ds EXCEPT !.stakingApr = Some(picked),
                 !.lastFetchError["stakingApr"] = None]

FetchEthStakingAprThen(ds, payload, nowMs) ==
  LET picked ==
        IF ~IsNull(payload.numeric)
          THEN [value |-> payload.numeric, sourceField |-> Some("numeric_payload")]
        ELSE IF ~IsNull(payload.avgapr31d)
          THEN [value |-> payload.avgapr31d, sourceField |-> Some("avgapr31d")]
        ELSE IF ~IsNull(payload.apr)
          THEN [value |-> payload.apr, sourceField |-> Some("apr")]
        ELSE IF ~IsNull(payload.apr_today)
          THEN [value |-> payload.apr_today, sourceField |-> Some("apr_today")]
        ELSE [value |-> None, sourceField |-> None]
  IN  [ds EXCEPT !.stakingApr = Some(picked),
                 !.lastFetchError["stakingApr"] = None]

FetchEthStakingAprCatch(ds, message, nowMs) ==
  [ds EXCEPT !.lastFetchError["stakingApr"] = Some(ErrorEntry("FETCH_FAILED", message, nowMs))]

\* payload.total_effective_balance ?? payload.totalEffectiveBalance ??
\* (typeof payload === 'number' || typeof payload === 'string' ? payload : null)
StakedRawValue(payload) ==
  IF payload.shape = "field" THEN payload.raw
  ELSE IF payload.raw.type \in {"number", "string"} THEN payload.raw
  ELSE JsNull

\* valueEth: Number(rawValue) / 1_000_000_000 when rawValue is not null and
\* the number is finite, else null
StakedValueEth(payload) ==
  LET rawValue == StakedRawValue(payload)
      numeric == NumberOf(rawValue)
  IN  IF rawValue.type # "null" /\ IsFiniteNumber(numeric)
        THEN Some(RatDiv(Val(numeric), RatInt(1000000000)))
        ELSE None

\* a mutation of FetchTotalStakedEthThen: the error of an earlier cycle stays
FetchTotalStakedEthThen_KeepsError(ds, payload, nowMs) ==
  [ds EXCEPT !.stakedEth = Some([value |-> StakedValueEth(payload), sourceUnit |-> "gwei"])]

FetchTotalStakedEthThen(ds, payload, nowMs) ==
  [ds EXCEPT !.stakedEth = Some([value |-> StakedValueEth(payload), sourceUnit |-> "gwei"]),
             !.lastFetchError["stakedEth"] = None]

\* a mutation of FetchTotalStakedEthCatch: the failure also drops the cached balance
FetchTotalStakedEthCatch_ClearsValue(ds, message, nowMs) ==
  [ds EXCEPT !.stakedEth = None,
             !.lastFetchError["stakedEth"] = Some(ErrorEntry("FETCH_FAILED", message, nowMs))]

FetchTotalStakedEthCatch(ds, message, nowMs) ==
  [ds EXCEPT !.lastFetchError["stakedEth"] = Some(ErrorEntry("FETCH_FAILED", message, nowMs))]

FetchNetworkFeeMissingProvider(ds, nowMs) ==
  IF ~HasErrorCode(ds.lastFetchError["networkFee"], "MISSING_PROVIDER")
    THEN [ds EXCEPT !.lastFetchError["networkFee"] =
            Some(ErrorEntry("MISSING_PROVIDER",
                            "Mainnet RPC URL not configured; cannot fetch network fee.", nowMs))]
    ELSE ds

\* rawFee and blockNumber as the try block reads them from the return data:
\* the ABI with one uint256, else the ABI with two (decodeFunctionResult throws
\* unless the data is a whole number of words and holds every word of the
\* ABI), else the words sliced from the text of the data
DecodeReturn(rawReturn) ==
  LET whole == rawReturn.bytes % 32 = 0
      decodedSingle == whole /\ rawReturn.bytes >= 32
      decodedTuple == whole /\ rawReturn.bytes >= 64
  IN  IF decodedSingle THEN [rawFee |-> Some(rawReturn.fee), blockNumber |-> None]
      ELSE IF decodedTuple
        THEN [rawFee |-> Some(rawReturn.fee), blockNumber |-> Some(rawReturn.block)]
      ELSE IF 2 + 2 * rawReturn.bytes >= 66
        THEN [rawFee |-> Some(rawReturn.fee),
              blockNumber |-> IF 2 + 2 * rawReturn.bytes >= 130 THEN Some(rawReturn.block)
                              ELSE None]
      ELSE [rawFee |-> None, blockNumber |-> None]

\* a mutation of FetchNetworkFeeThen: a fee that no rule decodes is cached
\* without its annualised estimate
FetchNetworkFeeThen_HidesEstimate(ds, rawReturn, nowMs) ==
  LET rawFee == Val(DecodeReturn(rawReturn).rawFee)
      decoded == normalizeNetworkFeeDecimal(rawFee)
  IN  [ds EXCEPT !.networkFee = Some([percentDecimal |-> decoded.percentDecimal,
                                      raw |-> rawFee,
                                      decodedScale |-> decoded.scale,
                                      blockNumber |-> DecodeReturn(rawReturn).blockNumber,
                                      perBlockSsv |-> decoded.perBlockSsv,
                                      perYearSsv |-> IF IsNull(decoded.percentDecimal) THEN None
                                                     ELSE decoded.perYearSsv]),
                 !.lastFetchError["networkFee"] = None]

\* the try block once the return data holds a fee
FetchNetworkFeeThen(ds, rawReturn, nowMs) ==
  LET rawFee == Val(DecodeReturn(rawReturn).rawFee)
      decoded == normalizeNetworkFeeDecimal(rawFee)
  IN  [ds EXCEPT !.networkFee = Some([percentDecimal |-> decoded.percentDecimal,
                                      raw |-> rawFee,
                                      decodedScale |-> decoded.scale,
                                      blockNumber |-> DecodeReturn(rawReturn).blockNumber,
                                      perBlockSsv |-> decoded.perBlockSsv,
                                      perYearSsv |-> decoded.perYearSsv]),
                 !.lastFetchError["networkFee"] = None]

FetchNetworkFeeCatch(ds, message, nowMs) ==
  [ds EXCEPT !.lastFetchError["networkFee"] = Some(ErrorEntry("FETCH_FAILED", message, nowMs))]

(***************************************************************************)
(* Orchestrator: fetchAllData.                                             *)
(***************************************************************************)
\* a mutation of Settled: the first adapter to return resolves the wait
Settled_Race(res) == \E a \in Adapters : res[a] \in {"true", "false"}

\* Promise.all([...]) has resolved
Settled(res) == \A a \in Adapters : res[a] \in {"true", "false"}
AnyUpdated(res) == \E a \in Adapters : res[a] = "true"
InFlight(c) == cycles[c].pc \in {"adapters", "seed"}

\* a mutation of FetchAllDataTail: lastUpdated is written in every cycle
FetchAllDataTail_AlwaysStamps(ds, res, nowMs) ==
  logProjectedNextMonthFee([ds EXCEPT !.lastUpdated = Some(nowMs)], NETWORK_FEE_PERCENT_V1, nowMs)

\* lines after "await seedHistoricalPricesIfNeeded()"
FetchAllDataTail(ds, res, nowMs) ==
  logProjectedNextMonthFee(
    IF AnyUpdated(res) THEN [ds EXCEPT !.lastUpdated = Some(nowMs)] ELSE ds,
    NETWORK_FEE_PERCENT_V1, nowMs)

Complete(c, ds, res, seeded) ==
  LET final == FetchAllDataTail(ds, res, now)
  IN  /\ dataState' = final
      /\ hasSeededHistory' = seeded
      /\ cycles' = [cycles EXCEPT ![c] = [IdleCycle EXCEPT !.pc = "done", !.res = res]]
      /\ completedSnapshot' = Snapshot(final)

needsSeed(ds) ==
  Len(ds.priceHistory["ETH"]) < 10 \/ Len(ds.priceHistory["SSV"]) < 10

\* the continuation of an adapter has run; when it was the last one, Promise.all
\* resolves and seedHistoricalPricesIfNeeded runs up to its first request
AdapterSettles(c, ds, res) ==
  IF ~Settled(res)
    THEN /\ dataState' = ds
         /\ cycles' = [cycles EXCEPT ![c].res = res]
         /\ UNCHANGED <<hasSeededHistory, completedSnapshot>>
  ELSE IF hasSeededHistory THEN Complete(c, ds, res, TRUE)
  ELSE IF ~needsSeed(ds) THEN Complete(c, ds, res, TRUE)
  ELSE IF ~cmcApiKey THEN Complete(c, ds, res, FALSE)
  ELSE /\ dataState' = ds
       /\ cycles' = [cycles EXCEPT ![c] = [pc |-> "seed", res |-> res, seedIdx |-> 1,
                                           seedTry |-> 1, addedAny |-> FALSE]]
       /\ UNCHANGED <<hasSeededHistory, completedSnapshot>>

\* the synchronous part of the four adapters, called in order by Promise.all([...])
FetchAllDataStart(c) ==
  LET ds1 == IF cmcApiKey THEN dataState ELSE FetchLatestPricesMissingKey(dataState, now)
      ds2 == IF ethStoreApiKey THEN ds1 ELSE FetchEthStakingAprMissingKey(ds1, now)
      ds3 == IF mainnetProvider THEN ds2 ELSE FetchNetworkFeeMissingProvider(ds2, now)
      res == [a \in Adapters |->
                IF a = "prices" THEN (IF cmcApiKey THEN "pending" ELSE "false")
                ELSE IF a = "stakingApr" THEN (IF ethStoreApiKey THEN "pending" ELSE "false")
                ELSE IF a = "networkFee" THEN (IF mainnetProvider THEN "pending" ELSE "false")
                ELSE "pending"]
  IN  /\ dataState' = ds3
      /\ cycles' = [cycles EXCEPT ![c] = [IdleCycle EXCEPT !.pc = "adapters", !.res = res]]
      /\ started' = started + 1
      /\ response' = None
      /\ UNCHANGED <<config, webapp, hasSeededHistory, now, ticks, failures, completedSnapshot,
                     everSucceeded, decodeLog, backfillCount, seedResponse, lastPayload, lastAttempt>>

\* app.listen callback: startPolling() awaits the first fetchAllData()
StartPolling ==
  /\ started = 0
  /\ FetchAllDataStart(1)

\* a mutation of IntervalFires: the timer is armed when the first cycle starts
IntervalFires_ArmedAtStart(maxCycles) ==
  /\ started >= 1
  /\ started < maxCycles
  /\ FetchAllDataStart(started + 1)

\* setInterval(fetchAllData, refreshIntervalMs), armed once the first cycle is over
IntervalFires(maxCycles) ==
  /\ started >= 1
  /\ started < maxCycles
  /\ cycles[1].pc = "done"
  /\ FetchAllDataStart(started + 1)

Pending(c, a) == cycles[c].pc = "adapters" /\ cycles[c].res[a] = "pending"

AdapterFrame ==
  /\ response' = None
  /\ UNCHANGED <<config, webapp, now, started, ticks, backfillCount, seedResponse>>

PricesResponds(c, payloads) ==
  /\ Pending(c, "prices")
  /\ \/ \E payload \in payloads :
          /\ AdapterSettles(c, FetchLatestPricesThen(dataState, payload, now),
                            [cycles[c].res EXCEPT !["prices"] = "true"])
          /\ everSucceeded' = everSucceeded \cup {"prices"}
          /\ lastPayload' = [lastPayload EXCEPT !["prices"] = Some(payload)]
          /\ lastAttempt' = [lastAttempt EXCEPT !["prices"] = "true"]
          /\ UNCHANGED failures
     \/ /\ failures < MaxFailures
        /\ failures' = failures + 1
        /\ AdapterSettles(c, FetchLatestPricesCatch(dataState, "timeout of 10000ms exceeded", now),
                          [cycles[c].res EXCEPT !["prices"] = "false"])
        /\ lastAttempt' = [lastAttempt EXCEPT !["prices"] = "false"]
        /\ UNCHANGED <<everSucceeded, lastPayload>>
  /\ UNCHANGED decodeLog
  /\ AdapterFrame

StakingAprResponds(c, payloads) ==
  /\ Pending(c, "stakingApr")
  /\ \/ \E payload \in payloads :
          /\ AdapterSettles(c, FetchEthStakingAprThen(dataState, payload, now),
                            [cycles[c].res EXCEPT !["stakingApr"] = "true"])
          /\ everSucceeded' = everSucceeded \cup {"stakingApr"}
          /\ lastPayload' = [lastPayload EXCEPT !["stakingApr"] = Some(payload)]
          /\ lastAttempt' = [lastAttempt EXCEPT !["stakingApr"] = "true"]
          /\ UNCHANGED failures
     \/ /\ failures < MaxFailures
        /\ failures' = failures + 1
        /\ AdapterSettles(c, FetchEthStakingAprCatch(dataState, "timeout of 10000ms exceeded", now),
                          [cycles[c].res EXCEPT !["stakingApr"] = "false"])
        /\ lastAttempt' = [lastAttempt EXCEPT !["stakingApr"] = "false"]
        /\ UNCHANGED <<everSucceeded, lastPayload>>
  /\ UNCHANGED decodeLog
  /\ AdapterFrame

StakedEthResponds(c, payloads) ==
  /\ Pending(c, "stakedEth")
  /\ \/ \E payload \in payloads :
          /\ AdapterSettles(c, FetchTotalStakedEthThen(dataState, payload, now),
                            [cycles[c].res EXCEPT !["stakedEth"] = "true"])
          /\ everSucceeded' = everSucceeded \cup {"stakedEth"}
          /\ lastPayload' = [lastPayload EXCEPT !["stakedEth"] = Some(payload)]
          /\ lastAttempt' = [lastAttempt EXCEPT !["stakedEth"] = "true"]
          /\ UNCHANGED failures
     \/ /\ failures < MaxFailures
        /\ failures' = failures + 1
        /\ AdapterSettles(c, FetchTotalStakedEthCatch(dataState, "timeout of 10000ms exceeded", now),
                          [cycles[c].res EXCEPT !["stakedEth"] = "false"])
        /\ lastAttempt' = [lastAttempt EXCEPT !["stakedEth"] = "false"]
        /\ UNCHANGED <<everSucceeded, lastPayload>>
  /\ UNCHANGED decodeLog
  /\ AdapterFrame

NetworkFeeResponds(c, payloads) ==
  /\ Pending(c, "networkFee")
  /\ \/ \E rawReturn \in payloads :
          IF ~IsNull(DecodeReturn(rawReturn).rawFee)
            THEN /\ AdapterSettles(c, FetchNetworkFeeThen(dataState, rawReturn, now),
                                   [cycles[c].res EXCEPT !["networkFee"] = "true"])
                 /\ everSucceeded' = everSucceeded \cup {"networkFee"}
                 /\ lastPayload' = [lastPayload EXCEPT !["networkFee"] = Some(rawReturn.fee)]
                 /\ lastAttempt' = [lastAttempt EXCEPT !["networkFee"] = "true"]
                 /\ decodeLog' = decodeLog \cup
                       {[raw |-> rawReturn.fee,
                         percentDecimal |->
                           normalizeNetworkFeeDecimal(rawReturn.fee).percentDecimal,
                         scale |-> normalizeNetworkFeeDecimal(rawReturn.fee).scale]}
                 /\ UNCHANGED failures
            ELSE /\ AdapterSettles(c, FetchNetworkFeeCatch(dataState,
                                        "Missing network fee value in contract response", now),
                                   [cycles[c].res EXCEPT !["networkFee"] = "false"])
                 /\ lastAttempt' = [lastAttempt EXCEPT !["networkFee"] = "false"]
                 /\ UNCHANGED <<everSucceeded, decodeLog, lastPayload, failures>>
     \/ /\ failures < MaxFailures
        /\ failures' = failures + 1
        /\ AdapterSettles(c, FetchNetworkFeeCatch(dataState, "timeout of 10000ms exceeded", now),
                          [cycles[c].res EXCEPT !["networkFee"] = "false"])
        /\ lastAttempt' = [lastAttempt EXCEPT !["networkFee"] = "false"]
        /\ UNCHANGED <<everSucceeded, decodeLog, lastPayload>>
  /\ AdapterFrame

(***************************************************************************)
(* Historical seeder: the continuation of seedHistoricalPricesIfNeeded     *)
(* after the response to the request for symbolsToFetch[seedIdx].          *)
(***************************************************************************)
\* after the for loop: mark complete, or fall back to the synthetic backfill
SeedLoopEnd(c, ds, addedAny) ==
  IF addedAny THEN Complete(c, ds, cycles[c].res, TRUE)
  ELSE LET b == backfillWithCurrentPrices(ds.priceHistory, ds.prices, now)
       IN  Complete(c, [ds EXCEPT !.priceHistory = b.priceHistory], cycles[c].res,
                    IF b.added THEN TRUE ELSE hasSeededHistory)

SeedNextSymbol(c, ds, addedAny) ==
  IF cycles[c].seedIdx < Len(symbolsList)
    THEN /\ dataState' = ds
         /\ cycles' = [cycles EXCEPT ![c].seedIdx = @ + 1, ![c].seedTry = 1,
                                     ![c].addedAny = addedAny]
         /\ UNCHANGED <<hasSeededHistory, completedSnapshot>>
    ELSE SeedLoopEnd(c, ds, addedAny)

\* a mutation of SeedCatch: an error other than the plan restriction is thrown
\* on to fetchAllData, which stops there
SeedCatch_Rethrows(c, error) ==
  IF error = "plan-1006" THEN Complete(c, dataState, cycles[c].res, TRUE)
  ELSE /\ cycles' = [cycles EXCEPT ![c].pc = "thrown"]
       /\ UNCHANGED <<dataState, hasSeededHistory, completedSnapshot>>

\* the catch block of the seeder
SeedCatch(c, error) ==
  Complete(c, dataState, cycles[c].res,
           IF error = "plan-1006" THEN TRUE ELSE hasSeededHistory)

SeedQuotesArrive(c, quotes) ==
  LET symbol == symbolsList[cycles[c].seedIdx]
  IN  IF Len(quotes) = 0
        THEN IF cycles[c].seedTry = 1
               THEN /\ cycles' = [cycles EXCEPT ![c].seedTry = 2]
                    /\ UNCHANGED <<dataState, hasSeededHistory, completedSnapshot>>
               ELSE SeedNextSymbol(c, dataState, cycles[c].addedAny)
        ELSE SeedNextSymbol(c,
               [dataState EXCEPT !.priceHistory[symbol] = SeedSymbolHistory(@, quotes)],
               cycles[c].addedAny \/ \E k \in 1..Len(quotes) : QuoteIsValid(quotes[k]))

\* the symbols whose history this continuation of the seeder fills: the symbol of
\* the request when a quote is pushed, and, when the loop ends with nothing added,
\* the symbols that backfillWithCurrentPrices fills
SeedQuotesRecorded(c, quotes) ==
  LET SeedFills ==
        IF \E k \in 1..Len(quotes) : QuoteIsValid(quotes[k])
          THEN {symbolsList[cycles[c].seedIdx]}
        ELSE IF /\ cycles[c].seedIdx = Len(symbolsList)
                /\ Len(quotes) > 0 \/ cycles[c].seedTry = 2
                /\ ~cycles[c].addedAny
          THEN {symbol \in Symbols : IsPositivePrice(PriceOf(dataState.prices, symbol))}
        ELSE {}
  IN  /\ SeedQuotesArrive(c, quotes)
      /\ seedResponse' = IF Len(quotes) = 0 THEN "empty" ELSE "quotes"
      /\ backfillCount' = [symbol \in Symbols |->
                             backfillCount[symbol] + IF symbol \in SeedFills THEN 1 ELSE 0]

SeedResponds(c, shapes, errors) ==
  /\ cycles[c].pc = "seed"
  /\ \/ \E shape \in shapes :
          /\ SeedQuotesRecorded(c, SeedQuotes(shape, symbolsList[cycles[c].seedIdx], now,
                                              MaxSeedQuotes))
          /\ UNCHANGED failures
     \/ /\ failures < MaxFailures
        /\ failures' = failures + 1
        /\ \E error \in errors : SeedCatch(c, error) /\ seedResponse' = error
        /\ UNCHANGED backfillCount
  /\ response' = None
  /\ UNCHANGED <<config, webapp, now, started, ticks, everSucceeded, decodeLog, lastPayload, lastAttempt>>

(***************************************************************************)
(* Facade: GET /api/prices.                                                *)
(***************************************************************************)
\* the handler of GET /api/prices.  JsonNumber is JSON.stringify of a number
\* (res.json), which writes Infinity and NaN as null; JsonPrices is
\* dataState.prices as the body carries it
ApiPricesResponse(ds) ==
  LET JsonNumber(n) == IF IsNumber(n) /\ ~IsFiniteNumber(n) THEN None ELSE n
      JsonPrices(prices) ==
        IF IsNull(prices) THEN None
        ELSE Some([symbol \in Symbols |->
                     [Val(prices)[symbol] EXCEPT !.priceUsd = JsonNumber(@)]])
  IN
  IF IsNull(ds.prices) /\ IsNull(ds.stakingApr) /\ IsNull(ds.stakedEth)
    THEN [status |-> 503, data |-> None, lastUpdated |-> None,
          lastFetchError |-> ds.lastFetchError]
    ELSE [status |-> 200,
          data |-> Some(
            [prices |-> JsonPrices(ds.prices),
             stakingApr |-> ds.stakingApr,
             stakedEth |-> ds.stakedEth,
             networkFeePercent |->
               IF ~IsNull(NETWORK_FEE_PERCENT_V1) THEN NETWORK_FEE_PERCENT_V1
               ELSE IF IsNull(ds.networkFee) THEN None
               ELSE Val(ds.networkFee).percentDecimal,
             networkFeeYearlySsv |->
               IF IsNull(ds.networkFee) THEN None ELSE Val(ds.networkFee).perYearSsv,
             nextMonthNetworkFeeYearlySsv |->
               IF IsNull(ds.nextMonthFeeProjection) THEN None
               ELSE Some(Val(ds.nextMonthFeeProjection).perYearSsv),
             networkFee |-> ds.networkFee]),
          lastUpdated |-> ds.lastUpdated,
          lastFetchError |-> ds.lastFetchError]

GetApiPrices ==
  /\ response' = Some(ApiPricesResponse(dataState))
  /\ UNCHANGED <<config, webapp, dataState, hasSeededHistory, now, cycles, started, ticks, failures,
                 completedSnapshot, everSucceeded, decodeLog, backfillCount, seedResponse,
                 lastPayload, lastAttempt>>

\* the wall clock moves on, between two calls of fetchAllData or while one waits
\* for a response: every continuation reads the clock anew
Tick ==
  /\ ticks < MaxTicks
  /\ started >= 1
  /\ started < MaxCycles
  \* the wall clock moves by 12 hours or by 30 days
  /\ \E step \in {1, 30 * msPerDay} : now' = now + step
  /\ ticks' = ticks + 1
  /\ response' = None
  /\ UNCHANGED <<config, webapp, dataState, hasSeededHistory, cycles, started, failures,
                 completedSnapshot, everSucceeded, decodeLog, backfillCount, seedResponse,
                 lastPayload, lastAttempt>>

Next ==
  \/ StartPolling
  \/ IntervalFires(MaxCycles)
  \/ \E c \in 1..MaxCycles : PricesResponds(c, PricePayloads(now))
  \/ \E c \in 1..MaxCycles : StakingAprResponds(c, AprPayloads)
  \/ \E c \in 1..MaxCycles : StakedEthResponds(c, StakedEthPayloads)
  \/ \E c \in 1..MaxCycles : NetworkFeeResponds(c, RawFeePayloads)
  \/ \E c \in 1..MaxCycles : SeedResponds(c, SeedShapes, SeedErrors)
  \/ GetApiPrices
  \/ Tick

Spec == Init /\ [][Next]_vars

(***************************************************************************)
(* Overlapping cycles: the timer keeps firing while earlier calls of        *)
(* fetchAllData are still waiting for their responses.                      *)
(***************************************************************************)
InitOverlap ==
  /\ Init
  /\ cmcApiKey /\ ethStoreApiKey /\ mainnetProvider
  /\ ~IsNull(NETWORK_FEE_PERCENT_V1)

NextOverlap ==
  \/ StartPolling
  \/ IntervalFires(MaxOverlapCycles)
  \/ \E c \in 1..MaxOverlapCycles : PricesResponds(c, PricePayloads(now))
  \/ \E c \in 1..MaxOverlapCycles : StakingAprResponds(c, AprPayloads)
  \/ \E c \in 1..MaxOverlapCycles : StakedEthResponds(c, StakedEthPayloads)
  \/ \E c \in 1..MaxOverlapCycles : NetworkFeeResponds(c, RawFeePayloads)
  \/ \E c \in 1..MaxOverlapCycles : SeedResponds(c, OverlapSeedShapes, SeedErrors)
  \/ GetApiPrices

SpecOverlap == InitOverlap /\ [][NextOverlap]_vars

(***************************************************************************)
(* The fee decoder on its own: a service with only the RPC provider        *)
(* configured, whose contract returns any of RawFeeInputs.                 *)
(***************************************************************************)
InitDecode ==
  /\ Init
  /\ ~cmcApiKey /\ ~ethStoreApiKey /\ mainnetProvider

NextDecode ==
  \/ StartPolling
  \/ IntervalFires(MaxDecodeCycles)
  \/ \E c \in 1..MaxDecodeCycles : StakedEthResponds(c, StakedEthPayloads)
  \/ \E c \in 1..MaxDecodeCycles : NetworkFeeResponds(c, RawFeeInputs)
  \/ GetApiPrices

DecodeSpec == InitDecode /\ [][NextDecode]_vars

(***************************************************************************)
(* Calendar window: the service, fully configured, is started on either    *)
(* side of a month boundary and the historical endpoint answers with       *)
(* daily or with half-daily quotes.                                        *)
(***************************************************************************)
InitWindow ==
  /\ InitAt(WindowStartTimes)
  /\ cmcApiKey /\ ethStoreApiKey /\ mainnetProvider
  /\ ~IsNull(NETWORK_FEE_PERCENT_V1)

NextWindow ==
  \/ StartPolling
  \/ IntervalFires(MaxWindowCycles)
  \/ \E c \in 1..MaxWindowCycles : PricesResponds(c, WindowPricePayloads(now))
  \/ \E c \in 1..MaxWindowCycles : StakingAprResponds(c, AprPayloads)
  \/ \E c \in 1..MaxWindowCycles : StakedEthResponds(c, StakedEthPayloads)
  \/ \E c \in 1..MaxWindowCycles : NetworkFeeResponds(c, RawFeePayloads)
  \/ \E c \in 1..MaxWindowCycles : SeedResponds(c, WindowSeedShapes, SeedErrors)
  \/ GetApiPrices

WindowSpec == InitWindow /\ [][NextWindow]_vars

(***************************************************************************)
(* Price adapter: CMC_API_KEY is the only credential, and the quotes       *)
(* endpoint answers with every shape of quote.                             *)
(***************************************************************************)
InitPrice == InitFrom({Configuration(TRUE, FALSE, FALSE, Some(Rat(1, 100)))}, {StartTime})

NextPrice ==
  \/ StartPolling
  \/ IntervalFires(MaxPriceCycles)
  \/ \E c \in 1..MaxPriceCycles : PricesResponds(c, QuotePayloads(now))
  \/ \E c \in 1..MaxPriceCycles : StakedEthResponds(c, StakedEthPayloads)
  \/ \E c \in 1..MaxPriceCycles : SeedResponds(c, OverlapSeedShapes, SeedErrors)
  \/ GetApiPrices

PriceSpec == InitPrice /\ [][NextPrice]_vars

(***************************************************************************)
(* Staking-yield adapter: ETHSTORE_API_KEY is the only credential, and the *)
(* endpoint answers with every shape of payload.                           *)
(***************************************************************************)
InitApr == InitFrom({Configuration(FALSE, TRUE, FALSE, Some(Rat(1, 100)))}, {StartTime})

NextApr ==
  \/ StartPolling
  \/ IntervalFires(MaxAprCycles)
  \/ \E c \in 1..MaxAprCycles : StakingAprResponds(c, AprInputs)
  \/ \E c \in 1..MaxAprCycles : StakedEthResponds(c, StakedEthPayloads)
  \/ GetApiPrices

AprSpec == InitApr /\ [][NextApr]_vars

(***************************************************************************)
(* Stake-total adapter: no credential is configured, and the endpoint      *)
(* answers with every shape of payload.                                    *)
(***************************************************************************)
InitStaked == InitFrom({Configuration(FALSE, FALSE, FALSE, Some(Rat(1, 100)))}, {StartTime})

NextStaked ==
  \/ StartPolling
  \/ IntervalFires(MaxStakedCycles)
  \/ \E c \in 1..MaxStakedCycles : StakedEthResponds(c, StakedEthInputs)
  \/ GetApiPrices

StakedSpec == InitStaked /\ [][NextStaked]_vars

(***************************************************************************)
(* IMP tab: a snapshot or a slider sets the inputs and App renders.        *)
(***************************************************************************)
\* the body of GET /api/prices as the client reads it: a field the server
\* sends as null, or inside an object it sends as null, reads as null; config
\* is null in a body without that field
MarketSnapshot(lastUpdated, ethPrice, ssvPrice, supply, apr, stakedEth, networkFeePercent, bodyConfig) ==
  [lastUpdated |-> lastUpdated,
   data |-> [prices |-> [ETH |-> [priceUsd |-> ethPrice],
                         SSV |-> [priceUsd |-> ssvPrice, totalSupply |-> supply]],
             stakingApr |-> [value |-> apr],
             stakedEth |-> [value |-> stakedEth],
             networkFeePercent |-> networkFeePercent],
   config |-> bodyConfig]

\* config of a body: deltaRanges with a range for the Staked ETH slider and
\* for the ETH price slider, a range whose min exceeds its max for the SSV
\* price slider and none for the network fee slider
DeltaConfig(stakedEth, ethPrice, networkFeePercent) ==
  Some([deltaRanges |-> Some([stakedEth |-> stakedEth, ethPrice |-> ethPrice,
                              ssvPrice |-> Some([min |-> Some(200), max |-> Some(100)]),
                              networkFee |-> None]),
        networkFeePercent |-> networkFeePercent])

\* bodies in the specification of the IMP tab: staked ETH below the first tier,
\* in a tier and between two tiers, at two SSV prices; bodies in which one input
\* is absent; and two bodies that carry ranges for the sliders
ImpSnapshotPayloads ==
  LET Body(ethPrice, ssvPrice, supply, apr, stakedEth, fee, bodyConfig) ==
        MarketSnapshot(Some(StartTime), ethPrice, ssvPrice, supply, apr, stakedEth, fee,
                       bodyConfig)
      Bodies(ethPrice, ssvPrice, supply, apr, stakedEth, fee) ==
        { Body(ethPrice, price, supply, apr, staked, fee, None) :
            price \in {ssvPrice, Float64FromInt(4)},
            staked \in {Float64FromInt(16), stakedEth, Float64FromInt(4000016)} }
        \cup
        { Body(None, ssvPrice, supply, apr, stakedEth, fee, None),
          Body(ethPrice, None, supply, apr, stakedEth, fee, None),
          Body(ethPrice, ssvPrice, None, apr, stakedEth, fee, None),
          Body(ethPrice, ssvPrice, supply, None, stakedEth, fee, None),
          Body(ethPrice, ssvPrice, supply, apr, None, fee, None) }
        \cup
        { Body(ethPrice, ssvPrice, supply, apr, stakedEth, fee, DeltaConfig(range, None, None)) :
            range \in {Some([min |-> Some(10), max |-> Some(50)]),
                       Some([min |-> Some(-50), max |-> Some(100)])} }
      \* the decimal literal of a number of hundredths
      Decimal(hundredths) == Float64("/", Float64FromInt(hundredths), Float64FromInt(100))
  IN  Bodies(Float64FromInt(3000), Float64FromInt(40), Float64FromInt(12000000), Decimal(4),
             Float64FromInt(3200000), Decimal(1))

backendVars == <<config, dataState, hasSeededHistory, now, cycles, started, ticks, failures,
                 response, completedSnapshot, everSucceeded, decodeLog, backfillCount,
                 seedResponse, lastPayload, lastAttempt>>

InitImp == InitFrom({Configuration(TRUE, TRUE, TRUE, Some(Rat(1, 100)))}, {StartTime})


(***************************************************************************)
(* Web client: the effect of App that loads the market snapshot.           *)
(***************************************************************************)
\* runs of the effect of App (a development build under StrictMode runs it,
\* cleans it up and runs it again)
MaxEffectRuns == 2
\* callbacks of the refresh interval in one run
MaxRefreshTicks == 3

\* the bodies fetchMarketSnapshot resolves with: after a complete cycle of the
\* server, after a cycle in which only the prices arrived, before any, and with
\* a config (ranges of which one bound is missing or not finite, a network fee
\* in percent)
SnapshotPayloads ==
  LET Bodies(apr, fee) ==
        { MarketSnapshot(Some(StartTime), Float64FromInt(3000), Float64FromInt(40),
                         Float64FromInt(12000000), apr, Float64FromInt(3200000), fee, None),
          MarketSnapshot(Some(StartTime), Float64FromInt(3100), Float64FromInt(41),
                         Float64FromInt(12000000), None, None, Float64FromInt(5), None),
          MarketSnapshot(None, None, None, None, None, None, None, None),
          MarketSnapshot(Some(StartTime), Float64FromInt(3000), Float64FromInt(40),
                         Float64FromInt(12000000), apr, Float64FromInt(3200000), None,
                         DeltaConfig(Some([min |-> Some(10), max |-> None]),
                                     Some([min |-> NotFinite, max |-> Some(-20)]),
                                     Float64FromInt(2))) }
      \* the decimal literal of a number of hundredths
      Decimal(hundredths) == Float64("/", Float64FromInt(hundredths), Float64FromInt(100))
  IN  Bodies(Decimal(4), Decimal(1))

\* loadSnapshot({ silent }) of closure i, up to its await
loadSnapshot(w, i, silent) ==
  IF w.effects[i].fetchInProgress THEN w
  ELSE [w EXCEPT !.effects[i].fetchInProgress = TRUE,
                 !.effects[i].pending = @ + 1,
                 !.requestsSent = @ + 1,
                 !.loading = IF silent THEN @ ELSE TRUE]

\* React runs the effect (let isMounted = true, let fetchInProgress = false, let
\* intervalId; pending is the number of calls of fetchMarketSnapshot of this
\* closure not yet settled): loadSnapshot(), then the interval is set
RunEffect ==
  /\ Len(webapp.effects) < MaxEffectRuns
  /\ \A i \in DOMAIN webapp.effects : ~webapp.effects[i].isMounted
  /\ LET NewEffect ==
           [isMounted |-> TRUE, fetchInProgress |-> FALSE, intervalId |-> None, pending |-> 0]
         i == Len(webapp.effects) + 1
         w == loadSnapshot([webapp EXCEPT !.effects = Append(@, NewEffect)], i, FALSE)
     IN  webapp' = IF w.MARKET_REFRESH_INTERVAL_MS > 0
                     THEN [w EXCEPT !.effects[i].intervalId = Some(i)]
                     ELSE w
  /\ UNCHANGED backendVars

\* the function the effect returns
Cleanup(i) ==
  /\ webapp.effects[i].isMounted
  /\ webapp' = [webapp EXCEPT !.effects[i].isMounted = FALSE, !.effects[i].intervalId = None]
  /\ UNCHANGED backendVars

\* the callback of window.setInterval
RefreshTick(i) ==
  /\ ~IsNull(webapp.effects[i].intervalId)
  /\ webapp.refreshTicks < MaxRefreshTicks
  /\ webapp' = loadSnapshot([webapp EXCEPT !.refreshTicks = @ + 1], i, TRUE)
  /\ UNCHANGED backendVars

\* the finally block of loadSnapshot
SnapshotSettles(w, i) ==
  [w EXCEPT !.effects[i].pending = @ - 1,
            !.effects[i].fetchInProgress = FALSE,
            !.loading = IF w.effects[i].isMounted THEN FALSE ELSE @]

\* the try block of loadSnapshot after its await: the snapshot is stored; when
\* the body carries config.deltaRanges the ranges are replaced and each delta is
\* clamped into its range; each baseline is replaced when the body carries a
\* finite number for it; the network fee of the body (data.networkFeePercent
\* when it is a number, else config.networkFeePercent; over 1 it is a percent)
\* is stored when it lies between 0 and 1; the error is cleared
StoreSnapshot(w, data) ==
  LET deltaConfig == IF IsNull(data.config) THEN None ELSE Val(data.config).deltaRanges
      nextRanges ==
        IF IsNull(deltaConfig) THEN w.deltaRanges
        ELSE [slider \in DOMAIN INITIAL_SLIDER_DELTA_RANGES |->
                normalizeRange(Val(deltaConfig)[slider], INITIAL_SLIDER_DELTA_RANGES[slider])]
      stakingApr == data.data.stakingApr.value
      backendEthPrice == data.data.prices.ETH.priceUsd
      backendSsvPrice == data.data.prices.SSV.priceUsd
      backendSsvSupply == data.data.prices.SSV.totalSupply
      backendStakedEth == data.data.stakedEth.value
      rawNetworkFeePercent ==
        IF IsNumber(data.data.networkFeePercent) THEN data.data.networkFeePercent
        ELSE IF ~IsNull(data.config) /\ IsNumber(Val(data.config).networkFeePercent)
          THEN Val(data.config).networkFeePercent
        ELSE None
      \* rawNetworkFeePercent > 1 ? rawNetworkFeePercent / 100 : rawNetworkFeePercent
      Normalized(raw) ==
        IF Float64("<", Float64FromInt(1), raw) THEN Float64("/", raw, Float64FromInt(100))
        ELSE raw
      \* normalized > 0 && normalized < 1
      Live(normalized, previous) ==
        IF \A bounds \in {<<Float64FromInt(0), normalized>>, <<normalized, Float64FromInt(1)>>} :
             Float64("<", bounds[1], bounds[2])
          THEN normalized
          ELSE previous
      Clamped(previous, range) ==
        IF IsNull(deltaConfig) THEN previous ELSE clamp(previous, range.min, range.max)
  IN  [w EXCEPT !.snapshot = Some(data),
                !.deltaRanges = nextRanges,
                !.ethPriceDeltaPct = Clamped(@, nextRanges.ethPrice),
                !.ssvPriceDeltaPct = Clamped(@, nextRanges.ssvPrice),
                !.stakedEthDeltaPct = Clamped(@, nextRanges.stakedEth),
                !.networkFeeDeltaPct = Clamped(@, nextRanges.networkFee),
                !.ethAprPercent =
                   IF IsFiniteNumber(stakingApr) THEN Float64("*", stakingApr, Float64FromInt(100))
                   ELSE @,
                !.ethPriceBaseline = IF IsFiniteNumber(backendEthPrice) THEN backendEthPrice ELSE @,
                !.ssvPriceBaseline = IF IsFiniteNumber(backendSsvPrice) THEN backendSsvPrice ELSE @,
                !.ssvTotalSupply = IF IsFiniteNumber(backendSsvSupply) THEN backendSsvSupply ELSE @,
                !.stakedEthBaseline =
                   IF IsFiniteNumber(backendStakedEth) THEN backendStakedEth ELSE @,
                !.liveNetworkFeeDecimal =
                   IF IsFiniteNumber(rawNetworkFeePercent)
                     THEN Live(Normalized(rawNetworkFeePercent), @)
                     ELSE @,
                !.error = None]

\* fetchMarketSnapshot resolves: the rest of the try block, then finally, then
\* the render of App with the new state
SnapshotResolves(i, data) ==
  /\ webapp.effects[i].pending > 0
  /\ webapp' = App(SnapshotSettles(IF webapp.effects[i].isMounted
                                     THEN StoreSnapshot(webapp, data)
                                     ELSE webapp, i))
  /\ UNCHANGED backendVars

\* fetchMarketSnapshot rejects: the catch block, then finally
SnapshotRejects(i, message) ==
  /\ webapp.effects[i].pending > 0
  /\ webapp' = SnapshotSettles(IF webapp.effects[i].isMounted
                                 THEN [webapp EXCEPT !.error = Some(message)]
                                 ELSE webapp, i)
  /\ UNCHANGED backendVars

\* the props of the four SliderControls of the controls grid
SliderControls(w) ==
  [stakedEth |-> [value |-> w.stakedEthDeltaPct,
                  min |-> w.deltaRanges.stakedEth.min, max |-> w.deltaRanges.stakedEth.max,
                  step |-> 1,
                  disabled |-> IsNull(w.stakedEthBaseline) \/ w.loading,
                  canReset |-> ~IsNull(w.stakedEthBaseline) /\ w.stakedEthDeltaPct # 0],
   ethPrice |-> [value |-> w.ethPriceDeltaPct,
                 min |-> w.deltaRanges.ethPrice.min, max |-> w.deltaRanges.ethPrice.max,
                 step |-> 1,
                 disabled |-> IsNull(w.ethPriceBaseline) \/ w.loading,
                 canReset |-> ~IsNull(w.ethPriceBaseline) /\ w.ethPriceDeltaPct # 0],
   ssvPrice |-> [value |-> w.ssvPriceDeltaPct,
                 min |-> w.deltaRanges.ssvPrice.min, max |-> w.deltaRanges.ssvPrice.max,
                 step |-> 5,
                 disabled |-> IsNull(w.ssvPriceBaseline) \/ w.loading,
                 canReset |-> ~IsNull(w.ssvPriceBaseline) /\ w.ssvPriceDeltaPct # 0],
   networkFee |-> [value |-> w.networkFeeDeltaPct,
                   min |-> w.deltaRanges.networkFee.min, max |-> w.deltaRanges.networkFee.max,
                   step |-> 1,
                   disabled |-> FALSE,
                   canReset |-> w.networkFeeDeltaPct # 0]]

\* setStakedEthDeltaPct, setEthPriceDeltaPct, setSsvPriceDeltaPct and
\* setNetworkFeeDeltaPct
SetDeltaPct(w, slider, value) ==
  CASE slider = "stakedEth" -> [w EXCEPT !.stakedEthDeltaPct = value]
    [] slider = "ethPrice" -> [w EXCEPT !.ethPriceDeltaPct = value]
    [] slider = "ssvPrice" -> [w EXCEPT !.ssvPriceDeltaPct = value]
    [] slider = "networkFee" -> [w EXCEPT !.networkFeeDeltaPct = value]

\* onChange of a slider that is not disabled: the range input is moved to
\* another of its positions (min plus a multiple of step, up to max), the delta
\* is set, and App renders
SliderChange(slider, value) ==
  LET control == SliderControls(webapp)[slider]
  IN  /\ ~control.disabled
      /\ value # control.value
      /\ value >= control.min /\ value <= control.max
      /\ (value - control.min) % control.step = 0
      /\ webapp' = App(SetDeltaPct(webapp, slider, value))
      /\ UNCHANGED backendVars

\* onReset of a slider whose Reset button is enabled: the delta is set to 0
SliderReset(slider) ==
  /\ SliderControls(webapp)[slider].canReset
  /\ webapp' = App(SetDeltaPct(webapp, slider, 0))
  /\ UNCHANGED backendVars

NextClient ==
  \/ RunEffect
  \/ \E i \in DOMAIN webapp.effects : Cleanup(i)
  \/ \E i \in DOMAIN webapp.effects : RefreshTick(i)
  \/ \E i \in DOMAIN webapp.effects : \E data \in SnapshotPayloads : SnapshotResolves(i, data)
  \/ \E i \in DOMAIN webapp.effects : SnapshotRejects(i, "Failed to fetch")
  \/ \E value \in {50, 0} : SliderChange("networkFee", value)
  \/ SliderReset("networkFee")

ClientSpec == InitImp /\ [][NextClient]_vars

\* the IMP tab: the effect runs once, the snapshot arrives at each refresh and
\* the sliders of its inputs are moved and reset
NextImp ==
  \/ RunEffect
  \/ \E i \in DOMAIN webapp.effects : RefreshTick(i)
  \/ \E i \in DOMAIN webapp.effects : \E data \in ImpSnapshotPayloads : SnapshotResolves(i, data)
  \/ \E change \in {<<"stakedEth", 50>>, <<"ethPrice", 50>>, <<"ssvPrice", -50>>} :
       SliderChange(change[1], change[2])
  \/ \E slider \in {"stakedEth", "ethPrice", "ssvPrice"} : SliderReset(slider)

ImpSpec == InitImp /\ [][NextImp]_vars


(***************************************************************************)
(* Properties.                                                             *)
(***************************************************************************)
CyclesInFlight == {c \in DOMAIN cycles : InFlight(c)}

\* a call of fetchAllData runs its last line in this step
CycleCompletes == \E c \in DOMAIN cycles : InFlight(c) /\ cycles'[c].pc = "done"

\* adapter a returns false in this step
FailsNow(a) ==
  \E c \in DOMAIN cycles : cycles[c].res[a] # "false" /\ cycles'[c].res[a] = "false"

\* C1: at most one poll cycle (fetchAllData) is in flight at any time: a timer
\* tick that fires while a cycle is still running starts no new cycle.
C1_SingleCycleInFlight == Cardinality(CyclesInFlight) <= 1

\* C2: a step in which an adapter fails (FETCH_FAILED, missing credential or
\* missing provider) leaves the four cached value fields unchanged, and the only
\* error slots it changes are those of the adapters that fail in it.
C2_FailureKeepsCachedValues ==
  [][(\E a \in Adapters : FailsNow(a)) =>
       /\ dataState'.prices = dataState.prices
       /\ dataState'.stakingApr = dataState.stakingApr
       /\ dataState'.stakedEth = dataState.stakedEth
       /\ dataState'.networkFee = dataState.networkFee
       /\ \A a \in Adapters :
            dataState'.lastFetchError[a] # dataState.lastFetchError[a] => FailsNow(a)]_vars

\* the quotes of an earlier cycle are still cached after the price request failed
C2_Witness ==
  /\ ~IsNull(dataState.prices)
  /\ HasErrorCode(dataState.lastFetchError["prices"], "FETCH_FAILED")
  /\ \E c \in DOMAIN cycles : cycles[c].res["prices"] = "false"

\* what GET /api/prices answers from the values of the last completed cycle
LastCompletedResponse ==
  ApiPricesResponse([dataState EXCEPT
                       !.prices = completedSnapshot.prices,
                       !.stakingApr = completedSnapshot.stakingApr,
                       !.stakedEth = completedSnapshot.stakedEth,
                       !.networkFee = completedSnapshot.networkFee,
                       !.nextMonthFeeProjection = completedSnapshot.nextMonthFeeProjection,
                       !.lastUpdated = completedSnapshot.lastUpdated])

\* C3: a read of GET /api/prices made while a cycle is in flight returns exactly
\* the values of the last completed cycle; nothing the running cycle has written
\* is visible before it ends.
C3_ReadSeesLastCompletedCycle ==
  (~IsNull(response) /\ CyclesInFlight # {}) => Val(response) = LastCompletedResponse

\* C4: GET /api/prices answers 503 only while no adapter has ever succeeded:
\* once any of the four adapters has succeeded, every read answers 200.
C4_ReadyOnceAnyAdapterSucceeded ==
  (~IsNull(response) /\ everSucceeded # {}) => Val(response).status = 200

\* C5: with the price credential missing and the staking-yield adapter having
\* succeeded, GET /api/prices returns 200 with prices null, stakingApr populated
\* and a MISSING_CREDENTIAL entry under lastFetchError.prices.
C5_MissingCredentialEntry ==
  (~cmcApiKey /\ "stakingApr" \in everSucceeded /\ ~IsNull(response)) =>
    /\ Val(response).status = 200
    /\ IsNull(Val(Val(response).data).prices)
    /\ ~IsNull(Val(Val(response).data).stakingApr)
    /\ HasErrorCode(Val(response).lastFetchError["prices"], "MISSING_CREDENTIAL")

\* C6: after every step that writes an asset's price history (live append, bulk
\* seeding, synthetic backfill) the history holds only points at most 30 days
\* older than the time of the write.
C6_HistoryWithinRetention ==
  [][\A symbol \in Symbols :
       dataState'.priceHistory[symbol] # dataState.priceHistory[symbol] =>
         \A i \in 1..Len(dataState'.priceHistory[symbol]) :
           dataState'.priceHistory[symbol][i].timestamp >= now' - PRICE_HISTORY_WINDOW_MS]_vars

\* an asset's calendar window has fewer than 30 points or a gap of more than 1.5 days
WindowIncomplete(ds, nowMs) ==
  \E symbol \in Symbols :
    LET window == calculate30dClosingWindow(ds.priceHistory[symbol], ds.lastCmcTimestamp, nowMs)
    IN  IsNull(window) \/ Val(window).count < 30 \/ Val(window).hasGap

\* C7: after any completed cycle, if either asset's calendar window has fewer than
\* 30 points or a gap of more than 1.5 days, the stored projection is null,
\* whatever an earlier cycle stored and whatever the other inputs are.
C7_IncompleteWindowClearsProjection ==
  [][(CycleCompletes /\ WindowIncomplete(dataState', now')) =>
       IsNull(dataState'.nextMonthFeeProjection)]_vars

\* the cached staking APR or the fee percent is not a positive finite number
RateInputsInvalid(ds) ==
  ~IsPositiveApr(ds.stakingApr) \/ IsNull(normalizePercentDecimal(NETWORK_FEE_PERCENT_V1))

\* C8: after any completed cycle in which the cached staking APR or the fee
\* percent is not a positive finite number, the stored projection is null.
C8_InvalidRateClearsProjection ==
  [][(CycleCompletes /\ RateInputsInvalid(dataState')) =>
       IsNull(dataState'.nextMonthFeeProjection)]_vars

\* C9: whenever a projection is stored, perYearSsv * avgSsvPrice equals
\* 32 * avgEthPrice * stakingApr * feePercent, where the two averages are those of
\* the calendar windows of the histories and the rates are the cached APR and the
\* configured fee percent; for 3000, 40, 0.04 and 0.01 the amount is 0.96.
C9_ProjectionFormula ==
  [][(dataState'.nextMonthFeeProjection # dataState.nextMonthFeeProjection
      /\ ~IsNull(dataState'.nextMonthFeeProjection)) =>
       LET p == Val(dataState'.nextMonthFeeProjection)
           ethWindow == calculate30dClosingWindow(dataState'.priceHistory["ETH"],
                                                  dataState'.lastCmcTimestamp, now')
           ssvWindow == calculate30dClosingWindow(dataState'.priceHistory["SSV"],
                                                  dataState'.lastCmcTimestamp, now')
           avgEth == Val(Val(ethWindow).avg)
           avgSsv == Val(Val(ssvWindow).avg)
           apr == Val(Val(dataState'.stakingApr).value)
           fee == Val(normalizePercentDecimal(NETWORK_FEE_PERCENT_V1))
       IN  /\ ~IsNull(ethWindow) /\ ~IsNull(ssvWindow)
           /\ Val(ethWindow).count >= 30 /\ Val(ssvWindow).count >= 30
           /\ RatMul(p.perYearSsv, avgSsv)
                = RatMul(RatMul(RatInt(32), avgEth), RatMul(apr, fee))
           /\ (avgEth = RatInt(3000) /\ avgSsv = RatInt(40)
               /\ apr = Rat(4, 100) /\ fee = Rat(1, 100))
                => p.perYearSsv = Rat(96, 100)]_vars

\* the projection of the worked example is stored: 30 daily points at 3000 and 40
C9_Witness ==
  /\ ~IsNull(dataState.nextMonthFeeProjection)
  /\ Val(dataState.nextMonthFeeProjection).avgEthPrice = RatInt(3000)
  /\ Val(dataState.nextMonthFeeProjection).avgSsvPrice = RatInt(40)
  /\ Val(dataState.nextMonthFeeProjection).ethWindow.count = 30
  /\ Val(dataState.nextMonthFeeProjection).ssvWindow.count = 30
  /\ Val(dataState.nextMonthFeeProjection).perYearSsv = Rat(96, 100)

\* C10: every decode of the same raw fee gives the same (percentDecimal, scale),
\* whatever was cached or decoded before, and a percentDecimal that is not null
\* lies in (0, 1].
C10_DecodeDeterministicAndBounded ==
  /\ \A x, y \in decodeLog : x.raw = y.raw => x = y
  /\ \A x \in decodeLog :
       ~IsNull(x.percentDecimal) =>
         DecPos(Val(x.percentDecimal)) /\ DecLePow10(Val(x.percentDecimal), 0)
  /\ ~IsNull(dataState.networkFee) =>
       [raw |-> Val(dataState.networkFee).raw,
        percentDecimal |-> Val(dataState.networkFee).percentDecimal,
        scale |-> Val(dataState.networkFee).decodedScale] \in decodeLog

\* the same raw fee, 10^20, was decoded in two cycles, to the upper limit 1
C10_Witness ==
  /\ cycles[1].res["networkFee"] = "true"
  /\ cycles[2].res["networkFee"] = "true"
  /\ Cardinality(decodeLog) = 1
  /\ \E x \in decodeLog : x.raw = DecNorm(1, 20) /\ x.percentDecimal = Some(DecNorm(1, 0))

\* C11: the raw fee 100 decodes by the whole-percent rule: scale
\* "percent-integer" and percentDecimal 1.0.
C11_RawHundredIsWholePercent ==
  \A x \in decodeLog :
    x.raw = DecNorm(100, 0) =>
      x.scale = Some("percent-integer") /\ x.percentDecimal = Some(DecNorm(1, 0))

\* raw < 10^k and raw <= 10^k for the integer raw itself, before any rounding
ExactBelowPow10(raw, k) ==
  IF raw.off = -1 THEN DecLePow10([raw EXCEPT !.off = 0], k)
  ELSE DecLtPow10([raw EXCEPT !.off = 0], k)

ExactAtMostPow10(raw, k) ==
  IF raw.off = 1 THEN DecLtPow10([raw EXCEPT !.off = 0], k)
  ELSE DecLePow10([raw EXCEPT !.off = 0], k)

\* the fixed-point scales of the specified rule order
SpecFixedPoint == <<18, 8, 6, 4>>
SpecLabel(d) == [i \in {18, 8, 6, 4} |-> CASE i = 18 -> "18-decimals" [] i = 8 -> "8-decimals"
                                           [] i = 6 -> "6-decimals" [] i = 4 -> "4-decimals"][d]
SpecPercentLabel(d) == [i \in {18, 8, 6, 4} |-> CASE i = 18 -> "18-decimals-percent" [] i = 8 -> "8-decimals-percent"
                                                  [] i = 6 -> "6-decimals-percent" [] i = 4 -> "4-decimals-percent"][d]

SpecIsFraction(raw, i) == DecPos(raw) /\ ExactBelowPow10(raw, SpecFixedPoint[i])
SpecIsPercent(raw, i) ==
  ~ExactBelowPow10(raw, SpecFixedPoint[i]) /\ ExactAtMostPow10(raw, SpecFixedPoint[i] + 2)

SpecFirst(raw, Matches(_, _)) ==
  CHOOSE i \in 1..Len(SpecFixedPoint) : Matches(raw, i) /\ \A j \in 1..(i - 1) : ~Matches(raw, j)

\* the first rule that matches the integer raw, in the specified order
SpecDecode(raw) ==
  IF DecPos(raw) /\ ExactAtMostPow10(raw, 7) /\ ExactBelowPow10(raw, 4)
    THEN [scale |-> Some("basis-points"), percentDecimal |-> Some(DecShift(raw, 4))]
  ELSE IF DecPos(raw) /\ ExactAtMostPow10(raw, 2)
    THEN [scale |-> Some("percent-integer"), percentDecimal |-> Some(DecShift(raw, 2))]
  ELSE IF \E i \in 1..Len(SpecFixedPoint) : SpecIsFraction(raw, i)
    THEN [scale |-> Some(SpecLabel(SpecFixedPoint[SpecFirst(raw, SpecIsFraction)])),
          percentDecimal |-> Some(DecShift(raw, SpecFixedPoint[SpecFirst(raw, SpecIsFraction)]))]
  ELSE IF \E i \in 1..Len(SpecFixedPoint) : SpecIsPercent(raw, i)
    THEN [scale |-> Some(SpecPercentLabel(SpecFixedPoint[SpecFirst(raw, SpecIsPercent)])),
          percentDecimal |-> Some(DecShift(raw, SpecFixedPoint[SpecFirst(raw, SpecIsPercent)] + 2))]
  ELSE [scale |-> None, percentDecimal |-> None]

\* a percentDecimal as the double that holds it
AsDouble(p) == IF IsNull(p) THEN p ELSE Some([Val(p) EXCEPT !.off = 0])

\* C12: for every raw integer the decoder commits to one scale, the first rule
\* that matches in the order basis points, whole percent, fixed point at 18, 8,
\* 6, 4 decimals with a value in (0,1), the same candidates with a value in
\* [1,100] divided by 100, otherwise no match (percentDecimal null).
C12_DecodeIsFirstMatchingRule ==
  \A x \in decodeLog :
    /\ x.scale = SpecDecode(x.raw).scale
    /\ x.percentDecimal = AsDouble(SpecDecode(x.raw).percentDecimal)

\* no rule of the decoder accepts the raw fee
NoRuleMatches(raw) ==
  /\ ~(DecPos(ToNumber(raw)) /\ DecLePow10(ToNumber(raw), 7) /\ DecLtPow10(DecShift(ToNumber(raw), 4), 0))
  /\ ~(DecPos(ToNumber(raw)) /\ DecLePow10(ToNumber(raw), 2))
  /\ \A i \in 1..Len(candidates) : ~CandidateIsFraction(raw, i) /\ ~CandidateIsPercent(raw, i)

\* the network-fee adapter of some cycle succeeds in this step
NetworkFeeRead ==
  \E c \in DOMAIN cycles :
    cycles[c].res["networkFee"] = "pending" /\ cycles'[c].res["networkFee"] = "true"

\* C13: when the raw fee read from the contract matches no decoding rule, the
\* cached networkFee has percentDecimal null and still exposes the raw integer
\* and perYearSsv, the raw value as 18-decimal SSV per block times BLOCKS_PER_YEAR.
C13_UnmatchedFeeKeepsRawAndEstimate ==
  [][NetworkFeeRead =>
       /\ ~IsNull(dataState'.networkFee)
       /\ Val(dataState'.networkFee).raw \in {x.raw : x \in decodeLog'}
       /\ NoRuleMatches(Val(dataState'.networkFee).raw) =>
            /\ IsNull(Val(dataState'.networkFee).percentDecimal)
            /\ Val(dataState'.networkFee).perYearSsv =
                 Some(DecMul(ToNumber(DecShift(Val(dataState'.networkFee).raw, 18)),
                             DecNorm(BLOCKS_PER_YEAR, 0)))]_vars

\* the raw fee 2 * 10^20 is cached undecoded with its estimate 200 * 2628000
C13_Witness ==
  /\ ~IsNull(dataState.networkFee)
  /\ Val(dataState.networkFee).raw = DecNorm(2, 20)
  /\ IsNull(Val(dataState.networkFee).percentDecimal)
  /\ Val(dataState.networkFee).perYearSsv = Some(DecNorm(525600000, 0))
  /\ \E c \in DOMAIN cycles : cycles[c].res["networkFee"] = "true"

\* the network-fee adapter of some cycle returns in this step
NetworkFeeSettles ==
  \E c \in DOMAIN cycles :
    cycles[c].res["networkFee"] = "pending" /\ cycles'[c].res["networkFee"] \in {"true", "false"}

\* C14: when the raw value read from the contract matches no decoding rule, the
\* network-fee adapter reports a DECODE_FAILED error in its error slot, with the
\* raw value surfaced, and does not return success with the slot cleared.
C14_UnmatchedFeeReportsDecodeFailed ==
  [][(/\ NetworkFeeSettles
      /\ dataState'.networkFee # dataState.networkFee
      /\ IsNull(Val(dataState'.networkFee).percentDecimal))
       => /\ HasErrorCode(dataState'.lastFetchError["networkFee"], "DECODE_FAILED")
          /\ ~NetworkFeeRead]_vars

\* C15: a cycle updates lastUpdated (to the time of its last step) if and only
\* if at least one of its adapters succeeded; a cycle whose four adapters all
\* fail leaves lastUpdated unchanged, and so does every step that completes no cycle.
C15_LastUpdatedIffAdapterSucceeded ==
  [][/\ \A c \in DOMAIN cycles :
          (InFlight(c) /\ cycles'[c].pc = "done") =>
            dataState'.lastUpdated =
              IF AnyUpdated(cycles'[c].res) THEN Some(now) ELSE dataState.lastUpdated
     /\ ~CycleCompletes => dataState'.lastUpdated = dataState.lastUpdated]_vars

\* the first cycle had a success and stamped lastUpdated; later, after the clock
\* moved, the second cycle failed in all four adapters and the stamp is still
\* that of the first
C15_Witness ==
  /\ cycles[1].pc = "done" /\ AnyUpdated(cycles[1].res)
  /\ cycles[2].pc = "done" /\ \A a \in Adapters : cycles[2].res[a] = "false"
  /\ dataState.lastUpdated = Some(StartTime)
  /\ now > StartTime

\* none of the four adapters of a cycle is still waiting
AllFourReturned(res) == \A a \in Adapters : res[a] # "pending"

\* cycle c runs a step of its seeder or its last lines (lastUpdated, projection)
SeedOrProjectionStep(c) == cycles'[c] # cycles[c] /\ cycles'[c].pc \in {"seed", "done"}

\* C16: within a cycle the seeding and projection steps run only after all four
\* adapters have settled, in every completion order and for every subset that
\* fails; no other step touches the seeded flag or the projection.
C16_SeedAndProjectionAfterAllSettled ==
  [][/\ \A c \in DOMAIN cycles : SeedOrProjectionStep(c) => AllFourReturned(cycles'[c].res)
     /\ (\/ dataState'.nextMonthFeeProjection # dataState.nextMonthFeeProjection
         \/ hasSeededHistory' # hasSeededHistory)
          => \E c \in DOMAIN cycles : SeedOrProjectionStep(c)]_vars

\* the first cycle is seeding after its adapters returned with mixed results
C16_Witness ==
  /\ cycles[1].pc = "seed"
  /\ cycles[1].res["prices"] = "true"
  /\ cycles[1].res["stakingApr"] = "false"
  /\ cycles[1].res["networkFee"] = "true"
  /\ cycles[1].seedIdx = 2

\* the steps call c of fetchAllData has left at most: one per pending adapter,
\* then two requests per symbol still to seed
Remaining(cycle) ==
  IF cycle.pc = "adapters"
    THEN 2 * Len(symbolsList) + Cardinality({a \in Adapters : cycle.res[a] = "pending"})
  ELSE IF cycle.pc = "seed"
    THEN 2 * (Len(symbolsList) - cycle.seedIdx) + (3 - cycle.seedTry)
  ELSE 0

\* call c awaits the response of an adapter, or of a request of the seeder
AwaitsResponse(c) ==
  \/ cycles[c].pc = "adapters" /\ \E a \in Adapters : Pending(c, a)
  \/ cycles[c].pc = "seed" /\ cycles[c].seedIdx \in 1..Len(symbolsList) /\ cycles[c].seedTry \in 1..2

\* call c of fetchAllData gets past the first line of seedHistoricalPricesIfNeeded
\* and sends its first historical request
SeederStarts(c) == cycles[c].pc # "seed" /\ cycles'[c].pc = "seed"

\* C18: once the seeder has been marked complete it never runs again, and in
\* any execution, overlapping cycles included, the historical backfill (real or
\* synthetic) is applied to a history at most once.
C18_SeederRunsOnce ==
  /\ [](\A symbol \in Symbols : backfillCount[symbol] <= 1)
  /\ [][hasSeededHistory => hasSeededHistory' /\ \A c \in DOMAIN cycles : ~SeederStarts(c)]_vars

\* the seeder run of call c ends in this step and the historical endpoint has
\* given it nothing: its request failed, or every response was empty
SeederEndsUnserved(c) ==
  /\ cycles[c].pc = "seed" /\ cycles'[c].pc = "done"
  /\ ~cycles[c].addedAny
  /\ seedResponse' \in {"empty"} \cup SeedErrors

\* 30 points, one day apart, all at the live price of the symbol
IsSyntheticFill(history, prices, symbol) ==
  /\ Len(history) = 30
  /\ \A k \in 1..Len(history) : history[k].priceUsd = Val(PriceOf(prices, symbol))
  /\ \A k \in 2..Len(history) :
       /\ history[k].timestamp - history[k - 1].timestamp = msPerDay
       /\ history[k].ms = history[k - 1].ms

\* C19: whenever the seeder runs and the historical endpoint is unavailable (the
\* request fails, also with the plan-restriction error) or returns no quotes,
\* the history of each asset with a known positive live price is filled with 30
\* daily points all equal to that live price.
C19_UnservedSeederFillsFromLivePrice ==
  [][\A c \in DOMAIN cycles :
       SeederEndsUnserved(c) =>
         \A symbol \in Symbols :
           IsPositivePrice(PriceOf(dataState.prices, symbol)) =>
             IsSyntheticFill(dataState'.priceHistory[symbol], dataState.prices, symbol)]_vars

\* in this step backfillWithCurrentPrices fills the histories of both assets
SyntheticFillOfBoth ==
  /\ \E c \in DOMAIN cycles : SeederEndsUnserved(c)
  /\ seedResponse' = "empty"
  /\ \A symbol \in Symbols : IsPositivePrice(PriceOf(dataState.prices, symbol))

\* calculate30dClosingWindow returns a window of 30 points without a gap
WindowIsValid(window) == ~IsNull(window) /\ Val(window).count = 30 /\ ~Val(window).hasGap

\* C20: right after backfillWithCurrentPrices has filled both assets,
\* calculate30dClosingWindow returns a valid window (30 points, no gap) for each
\* asset, so with a positive APR and a fee percent that cycle stores a projection.
C20_SyntheticFillGivesValidWindows ==
  [][SyntheticFillOfBoth =>
       /\ \A symbol \in Symbols :
            WindowIsValid(calculate30dClosingWindow(dataState'.priceHistory[symbol],
                                                    dataState'.lastCmcTimestamp, now))
       /\ (IsPositiveApr(dataState.stakingApr) /\ ~IsNull(NETWORK_FEE_PERCENT_V1))
            => ~IsNull(dataState'.nextMonthFeeProjection)]_vars

\* the reference time of the calendar window in state ds at wall clock nowMs
WindowRef(ds, nowMs) == IF IsNull(ds.lastCmcTimestamp) THEN nowMs ELSE Val(ds.lastCmcTimestamp)

\* the samples of a history that lie inside the calendar window, oldest first
SamplesInWindow(history, ref) ==
  WindowEntries(SortByTimestamp(history), StartDateUtc(ref), EndExclusive(ref))

\* at least 30 samples, 29 days or more from the first to the last, and no two
\* consecutive samples more than 1.5 days apart
SamplesAreComplete(samples) ==
  LET AtLeastApart(a, b, units) ==
        \/ b.timestamp - a.timestamp > units
        \/ b.timestamp - a.timestamp = units /\ b.ms >= a.ms
      MoreThanApart(a, b, units) ==
        \/ b.timestamp - a.timestamp > units
        \/ b.timestamp - a.timestamp = units /\ b.ms > a.ms
  IN  /\ Len(samples) >= 30
      /\ AtLeastApart(samples[1], samples[Len(samples)], 29 * msPerDay)
      /\ \A k \in 2..Len(samples) : ~MoreThanApart(samples[k - 1], samples[k], (3 * msPerDay) \div 2)

\* a projection is computed and stored in this step
ProjectionComputed ==
  /\ ~IsNull(dataState'.nextMonthFeeProjection)
  /\ dataState'.nextMonthFeeProjection # dataState.nextMonthFeeProjection

\* C21: a projection is computed only when, for each of the two assets, the
\* samples inside the calendar window number at least 30, span at least 29 days
\* from the first to the last sample, and have no two consecutive samples more
\* than 1.5 days apart.
C21_ProjectionNeedsCompleteWindows ==
  [][ProjectionComputed =>
       \A symbol \in Symbols :
         SamplesAreComplete(SamplesInWindow(dataState'.priceHistory[symbol],
                                            WindowRef(dataState', now)))]_vars

\* 00:00 UTC of the last day of the month before the month of t
LastDayOfPreviousMonth(t) == (t \div msPerDay - UTCDate(t \div msPerDay).date) * msPerDay
\* every time of the month of t, in steps of 12 hours
TimesOfMonth(t) ==
  LET OfMonth(firstDay, month) ==
        {u \in (firstDay * msPerDay)..((firstDay + 31) * msPerDay - 1) :
           UTCDate(u \div msPerDay).month = month}
  IN  OfMonth(t \div msPerDay - UTCDate(t \div msPerDay).date + 1, UTCDate(t \div msPerDay).month)

\* the bounds of the calendar window are those of the month of ref
WindowBoundsOfMonth(ref) ==
  /\ EndDateUtc(ref) = LastDayOfPreviousMonth(ref)
  /\ StartDateUtc(ref) = EndDateUtc(ref) - 29 * msPerDay
  /\ \A u \in TimesOfMonth(ref) :
       EndDateUtc(u) = EndDateUtc(ref) /\ StartDateUtc(u) = StartDateUtc(ref)

\* C22: for any reference timestamp the calendar window ends on the last day of
\* the previous UTC calendar month and starts exactly 29 days earlier, so two
\* reference timestamps of the same UTC month give the same bounds; the window
\* a cycle computes does not slide between polls.
C22_WindowIsPreviousCalendarMonth ==
  /\ [](WindowBoundsOfMonth(now) /\ WindowBoundsOfMonth(WindowRef(dataState, now)))
  /\ [][\A c \in DOMAIN cycles :
          (InFlight(c) /\ cycles'[c].pc = "done") =>
            \A symbol \in Symbols :
              LET window == calculate30dClosingWindow(dataState'.priceHistory[symbol],
                                                      dataState'.lastCmcTimestamp, now)
              IN  ~IsNull(window) =>
                    /\ Val(window).end = LastDayOfPreviousMonth(WindowRef(dataState', now))
                    /\ Val(window).start = Val(window).end - 29 * msPerDay]_vars

\* C23: a snapshot field is null only if no source has ever produced it: while
\* prices, stakingApr, stakedEth or networkFee is null its adapter has never
\* succeeded, and once the field holds a value no later step of any cycle,
\* successful or failed, sets it back to null.
C23_FieldNullOnlyIfNeverProduced ==
  /\ [](\A a \in Adapters : IsNull(dataState[a]) => a \notin everSucceeded)
  /\ [][\A a \in Adapters : ~IsNull(dataState[a]) => ~IsNull(dataState'[a])]_vars

\* the second cycle is over: its balance request failed and its yield response
\* had no numeric field, and both fields still hold their objects
C23_Witness ==
  /\ cycles[2].pc = "done"
  /\ cycles[2].res["stakedEth"] = "false" /\ ~IsNull(dataState.stakedEth)
  /\ cycles[2].res["stakingApr"] = "true"
  /\ ~IsNull(dataState.stakingApr) /\ IsNull(Val(dataState.stakingApr).value)
  /\ ~IsNull(dataState.prices) /\ ~IsNull(dataState.networkFee)

\* C24: the facade never fabricates a value: every value field of the
\* /api/prices response, networkFeePercent included, is null whenever the source
\* it stands for has never produced it; no default number is substituted.
C24_FacadeNeverFabricates ==
  (~IsNull(response) /\ Val(response).status = 200) =>
    /\ \A a \in Adapters : a \notin everSucceeded => IsNull(Val(Val(response).data)[a])
    /\ "networkFee" \notin everSucceeded =>
         /\ IsNull(Val(Val(response).data).networkFeePercent)
         /\ IsNull(Val(Val(response).data).networkFeeYearlySsv)

\* the adapters whose credential or provider is missing
Unconfigured ==
  {a \in Adapters : \/ a = "prices" /\ ~cmcApiKey
                    \/ a = "stakingApr" /\ ~ethStoreApiKey
                    \/ a = "networkFee" /\ ~mainnetProvider}

\* C25: with a credential or provider missing, the error slot of the adapter is
\* written in the first cycle only: every later cycle leaves the slot (code,
\* message and timestamp) unchanged, and no cycle waits for an outbound call of
\* that adapter.
C25_MissingConfigurationWrittenOnce ==
  /\ [](\A a \in Unconfigured : \A c \in DOMAIN cycles : cycles[c].res[a] \in {"none", "false"})
  /\ [][\A a \in Unconfigured :
          /\ started >= 1 =>
               dataState'.lastFetchError[a] = dataState.lastFetchError[a]
          /\ started' >= 1 =>
               /\ ~IsNull(dataState'.lastFetchError[a])
               /\ Val(dataState'.lastFetchError[a]).timestamp = StartTime]_vars

\* the second cycle ran a month after the first, without the two keys and the
\* provider, and the three slots still carry the time of the first cycle
C25_Witness ==
  /\ Unconfigured = {"prices", "stakingApr", "networkFee"}
  /\ cycles[2].pc = "done"
  /\ now = StartTime + 30 * msPerDay
  /\ \A a \in Unconfigured : Val(dataState.lastFetchError[a]).timestamp = StartTime

\* call c of fetchAllData starts in this step
CycleStarts(c) == cycles[c].pc = "idle" /\ cycles'[c].pc = "adapters"

\* adapter a of some cycle returns true in this step
AdapterSucceeds(a) ==
  \E c \in DOMAIN cycles : cycles[c].res[a] = "pending" /\ cycles'[c].res[a] = "true"

\* what a successful response leaves in the cache of adapter a
FetchedValues(a) ==
  CASE a = "prices" ->
         {FetchLatestPricesThen(dataState, p, now).prices : p \in PricePayloads(now)}
    [] a = "stakingApr" ->
         {FetchEthStakingAprThen(dataState, p, now).stakingApr : p \in AprPayloads}
    [] a = "stakedEth" ->
         {FetchTotalStakedEthThen(dataState, p, now).stakedEth : p \in StakedEthPayloads}
    [] a = "networkFee" ->
         {FetchNetworkFeeThen(dataState, p, now).networkFee : p \in RawFeePayloads}

\* C26: an adapter that failed with FETCH_FAILED in one cycle is invoked again
\* in the next cycle, and when a later attempt succeeds its error slot becomes
\* null and its cached value is replaced by the newly fetched one.
C26_FailedAdapterIsRetried ==
  [][\A a \in Adapters :
       /\ \A c \in DOMAIN cycles :
            (CycleStarts(c) /\ HasErrorCode(dataState.lastFetchError[a], "FETCH_FAILED"))
              => cycles'[c].res[a] = "pending"
       /\ AdapterSucceeds(a) =>
            /\ IsNull(dataState'.lastFetchError[a])
            /\ dataState'[a] \in FetchedValues(a)]_vars

\* the balance request failed in the first cycle and succeeded in the second:
\* the slot is empty again and the balance is cached
C26_Witness ==
  /\ cycles[1].pc = "done" /\ cycles[1].res["stakedEth"] = "false"
  /\ cycles[2].res["stakedEth"] = "true"
  /\ IsNull(dataState.lastFetchError["stakedEth"])
  /\ ~IsNull(dataState.stakedEth)
  /\ Val(dataState.stakedEth).value = Some(Rat(1500000000, 1000000000))


FewerThanTen(ds) == \E symbol \in Symbols : Len(ds.priceHistory[symbol]) < 10

\* call c of the seeder sends a historical request at the end of this step
SeederRequests(c) == cycles'[c].pc = "seed" /\ cycles'[c] # cycles[c]

\* call c of the seeder returns before its first request
SeederReturnsAtOnce(c) == cycles[c].pc = "adapters" /\ cycles'[c].pc = "done"

\* C27: the seeder sends a historical request, and writes historical or
\* synthetic points, only while ETH or SSV has fewer than 10 history points;
\* called with at least 10 points for both, it sets hasSeededHistory and
\* writes no point.
C27_SeederBackfillsOnlyBelowTen ==
  [][/\ backfillCount' # backfillCount => FewerThanTen(dataState)
     /\ \A c \in DOMAIN cycles :
          /\ SeederRequests(c) => FewerThanTen(dataState')
          /\ (SeederReturnsAtOnce(c) /\ ~FewerThanTen(dataState')) =>
               (hasSeededHistory' /\ backfillCount' = backfillCount)]_vars


\* the stored price of a quote, as the specification words it
SpecStoredPrice(quote) ==
  CASE Len(quote.close) = 1 -> quote.close
    [] Len(quote.close) # 1 /\ Len(quote.price) >= 1 -> quote.price
    [] OTHER -> None

\* C28: the cached priceUsd of each asset is, for the payload of the last
\* successful price response, the close when the close is a finite number
\* (also when a live price is present), the live price when the close is not
\* usable and the price is a number, and null when neither is.
C28_StoredPriceIsCloseThenLive ==
  ~IsNull(lastPayload["prices"]) =>
    /\ ~IsNull(dataState.prices)
    /\ \A symbol \in Symbols :
         Val(dataState.prices)[symbol].priceUsd =
           SpecStoredPrice(Val(lastPayload["prices"]).quotes[symbol])

\* a payload with both close and price for ETH and neither for SSV has been cached
C28_Witness ==
  /\ ~IsNull(lastPayload["prices"])
  /\ Val(lastPayload["prices"]).quotes["ETH"] = Quote(Some(3000), Some(3100))
  /\ Val(lastPayload["prices"]).quotes["SSV"] = Quote(None, None)
  /\ Val(dataState.prices)["ETH"].priceUsd = Some(3000)
  /\ Val(dataState.prices)["SSV"].priceUsd = None


\* how often entry e occurs in the sequence s
Occurrences(s, e) == Cardinality({i \in 1..Len(s) : s[i] = e})

\* every entry of new occurs in old at least as often: new holds no added entry
NothingAdded(old, new) ==
  \A e \in {new[i] : i \in 1..Len(new)} : Occurrences(new, e) <= Occurrences(old, e)

\* new ends with the entry pt, and holds no other added entry
OnePointAppended(old, new, pt) ==
  /\ Len(new) >= 1
  /\ new[Len(new)] = pt
  /\ NothingAdded(old, SubSeq(new, 1, Len(new) - 1))

\* the continuation of the quotes request of cycle c runs in this step
PriceFetchSucceeds(c) ==
  /\ Pending(c, "prices")
  /\ cycles'[c].res["prices"] = "true"

PriceFetchFails(c) ==
  /\ Pending(c, "prices")
  /\ cycles'[c].res["prices"] = "false"

\* C29: a successful price fetch appends to the history of each asset exactly
\* one point, stamped now and carrying the stored price, when that price is
\* finite and positive, and no point when it is null, not finite, zero or
\* negative; a failed price fetch leaves both histories as they were.
C29_OnePointPerPositivePrice ==
  [][\A c \in DOMAIN cycles :
       /\ PriceFetchSucceeds(c) =>
            \A symbol \in Symbols :
              LET stored == Val(dataState'.prices)[symbol].priceUsd
                  old == dataState.priceHistory[symbol]
                  new == dataState'.priceHistory[symbol]
              IN  IF Len(stored) = 1 /\ Val(stored) > 0
                    THEN OnePointAppended(old, new, [timestamp |-> now, ms |-> 0, priceUsd |-> Val(stored)])
                    ELSE NothingAdded(old, new)
       /\ PriceFetchFails(c) => dataState'.priceHistory = dataState.priceHistory]_vars

\* a response with a zero close for ETH and a positive close for SSV has just
\* been cached: SSV has its point, ETH has none
C29_Witness ==
  /\ ~IsNull(dataState.prices)
  /\ Val(dataState.prices)["ETH"].priceUsd = Some(0)
  /\ Val(dataState.prices)["SSV"].priceUsd = Some(40)
  /\ dataState.priceHistory["ETH"] = <<>>
  /\ dataState.priceHistory["SSV"] = <<[timestamp |-> now, ms |-> 0, priceUsd |-> 40]>>


\* the candidates of the staking-yield payload in the order of the specification
AprCandidateOrder == <<"numeric", "avgapr31d", "apr", "apr_today">>

AprCandidateLabel(field) == IF field = "numeric" THEN "numeric_payload" ELSE field

\* value and sourceField of the first candidate of the payload that holds a number
SpecAprPick(payload) ==
  LET available == {i \in 1..Len(AprCandidateOrder) : Len(payload[AprCandidateOrder[i]]) = 1}
  IN  IF available = {} THEN [value |-> None, sourceField |-> None]
      ELSE LET first == CHOOSE i \in available : \A j \in available : i <= j
           IN  [value |-> payload[AprCandidateOrder[first]],
                sourceField |-> Some(AprCandidateLabel(AprCandidateOrder[first]))]

\* C30: the cached staking yield is, for the payload of the last successful
\* response, the value of the first candidate holding a number in the order
\* bare numeric payload, avgapr31d, apr, apr_today, with sourceField naming
\* that candidate; value and sourceField are both null when no candidate is.
C30_AprFirstCandidateInPriorityOrder ==
  ~IsNull(lastPayload["stakingApr"]) =>
    /\ ~IsNull(dataState.stakingApr)
    /\ Val(dataState.stakingApr).value = SpecAprPick(Val(lastPayload["stakingApr"])).value
    /\ Val(dataState.stakingApr).sourceField =
         SpecAprPick(Val(lastPayload["stakingApr"])).sourceField

\* a payload with the three named fields has been cached from avgapr31d
C30_Witness ==
  /\ ~IsNull(lastPayload["stakingApr"])
  /\ Val(lastPayload["stakingApr"]).avgapr31d = Some(Rat(4, 100))
  /\ Val(lastPayload["stakingApr"]).apr = Some(Rat(5, 100))
  /\ Val(lastPayload["stakingApr"]).apr_today = Some(Rat(6, 100))
  /\ Val(dataState.stakingApr).value = Some(Rat(4, 100))
  /\ Val(dataState.stakingApr).sourceField = Some("avgapr31d")


\* the balance carried by the payload is a finite number, or a text that holds
\* a digit and reads as a finite number
SpecIsNumeric(v) ==
  \/ v.type = "number" /\ Len(v.num) = 1
  \/ /\ v.type = "string"
     /\ \E i \in 1..Len(v.text) :
          v.text[i] \in {"0", "1", "2", "3", "4", "5", "6", "7", "8", "9"}
     /\ IsFiniteNumber(StringToNumber(v.text))

SpecNumber(v) == IF v.type = "number" THEN RatInt(Val(v.num)) ELSE Val(StringToNumber(v.text))

\* the continuation of the stake-total request of cycle c runs in this step
StakedFetchSucceeds(c) ==
  /\ Pending(c, "stakedEth")
  /\ cycles'[c].res["stakedEth"] = "true"

\* C31: a successful stake-total response whose payload carries a number
\* caches that number divided by 1,000,000,000; one whose payload carries no
\* number caches the value null; either way the error slot of the adapter is
\* null afterwards.
C31_StakedValueIsPayloadOverGwei ==
  [][\A c \in DOMAIN cycles :
       StakedFetchSucceeds(c) =>
         LET carried == Val(lastPayload'["stakedEth"]).raw
         IN  /\ ~IsNull(dataState'.stakedEth)
             /\ IsNull(dataState'.lastFetchError["stakedEth"])
             /\ Val(dataState'.stakedEth).value =
                  IF SpecIsNumeric(carried)
                    THEN Some(RatDiv(SpecNumber(carried), RatInt(1000000000)))
                    ELSE None]_vars


\* (Validators x ETH APR x ETH price) / SSV price, with Validators = staked ETH / 32,
\* in the arithmetic of the client
SpecMarketRequirement(w) ==
  Float64("/",
          Float64("*", Float64("*", totalValidators(w.finalStakedEth), w.finalEthAprDecimal),
                  w.finalEthPrice),
          w.finalSsvPrice)

\* Max Inflation x Total SSV
SpecInflationCap(w) ==
  Float64("*", Float64("/", Float64FromInt(IMP_MAX_INFLATION_PERCENT), Float64FromInt(100)),
          w.ssvTotalSupply)

SpecMin(a, b) == IF Float64("<", b, a) THEN b ELSE a

\* the inputs of both quantities are known positive numbers
ImpQuantitiesKnown(w) ==
  /\ \A x \in {w.finalStakedEth, w.finalEthAprDecimal, w.finalEthPrice, w.finalSsvPrice} :
       IsFiniteNumber(x) /\ Float64("<", Float64FromInt(0), x)
  /\ IsFiniteNumber(w.ssvTotalSupply)

\* C32: whenever the market requirement (Validators x ETH APR x ETH price) /
\* SSV price and the cap Max Inflation x Total SSV are both known, the Yearly
\* IMP shown is the smaller of the two.
C32_YearlyImpIsMinOfRequirementAndCap ==
  ImpQuantitiesKnown(webapp) =>
    webapp.impYearlySsvState.value =
      SpecMin(SpecMarketRequirement(webapp), SpecInflationCap(webapp))


\* every sample of old inside the calendar window of reference ref is still in new
WindowSamplesKept(old, new, ref) ==
  \A e \in {old[i] : i \in 1..Len(old)} :
    (e.timestamp >= StartDateUtc(ref) /\ e.timestamp < EndExclusive(ref)) =>
      Occurrences(new, e) >= Occurrences(old, e)

\* C33: whenever a successful price fetch appends to the histories and prunes
\* them, the cutoff (now minus 30 days) is not later than the start of the
\* calendar window, and no sample inside the window is removed.
C33_PruningSparesTheWindow ==
  [][\A c \in DOMAIN cycles :
       PriceFetchSucceeds(c) =>
         /\ now - PRICE_HISTORY_WINDOW_MS <= StartDateUtc(WindowRef(dataState', now))
         /\ \A symbol \in Symbols :
              WindowSamplesKept(dataState.priceHistory[symbol],
                                dataState'.priceHistory[symbol],
                                WindowRef(dataState', now))]_vars


\* C34: whenever hasSeededHistory is true, the histories of ETH and of SSV
\* each hold at least 10 points.
C34_SeededMeansTenPointsEach ==
  hasSeededHistory => \A symbol \in Symbols : Len(dataState.priceHistory[symbol]) >= 10


\* the scales of the ordered strategy list
DecodingScales ==
  {"basis-points", "percent-integer", "18-decimals", "8-decimals", "6-decimals", "4-decimals"}

\* raw fees m * 10^e for short mantissas and every exponent up to 30, with the
\* inputs of the decoder specification: they straddle every threshold of the list
ScaleProbes ==
  {rawReturn.fee : rawReturn \in RawFeeInputs} \cup { DecNorm(m, e) : m \in {1, 2, 5, 9, 15, 99, 101, 9999}, e \in 0..30 }

\* C35: for each of basis-points, percent-integer, 18-, 8-, 6- and 4-decimals
\* there is a raw fee, among the probes and the fees the adapter has read, that
\* normalizeNetworkFeeDecimal decodes with that scale.
C35_EveryScaleIsReachable ==
  \A scale \in DecodingScales :
    \E raw \in ScaleProbes \cup {x.raw : x \in decodeLog} :
      normalizeNetworkFeeDecimal(raw).scale = Some(scale)


\* the cached value of field (stakingApr or stakedEth) of ds is a number
HoldsNumber(ds, field) == ~IsNull(ds[field]) /\ ~IsNull(Val(ds[field]).value)

\* C36: once stakingApr.value or stakedEth.value holds a number, it holds a
\* number after every later step, also after a successful fetch whose payload
\* carries no number.
C36_CachedNumberNeverBecomesNull ==
  [][\A field \in {"stakingApr", "stakedEth"} :
       HoldsNumber(dataState, field) => HoldsNumber(dataState', field)]_vars


\* the credential or provider of adapter a is configured
Configured(a) ==
  CASE a = "prices" -> cmcApiKey
    [] a = "stakingApr" -> ethStoreApiKey
    [] a = "networkFee" -> mainnetProvider
    [] OTHER -> TRUE

\* an attempt of adapter a settles in this step with the given outcome
AttemptSettles(a, outcome) ==
  \E c \in DOMAIN cycles : Pending(c, a) /\ cycles'[c].res[a] = outcome

\* cycle c ends in this step
CycleEnds(c) == cycles[c].pc \in {"adapters", "seed"} /\ cycles'[c].pc = "done"

\* C37: at the end of every cycle, for each adapter whose credential or provider
\* is configured, the error slot is null exactly when the most recent attempt of
\* the adapter succeeded and holds a FETCH_FAILED entry exactly when it failed;
\* each attempt that settles sets the slot, and nothing else changes it.
C37_ErrorSlotTracksLastAttempt ==
  [][\A a \in Adapters :
       Configured(a) =>
         /\ AttemptSettles(a, "true") => IsNull(dataState'.lastFetchError[a])
         /\ AttemptSettles(a, "false") => HasErrorCode(dataState'.lastFetchError[a], "FETCH_FAILED")
         /\ (~AttemptSettles(a, "true") /\ ~AttemptSettles(a, "false")) =>
              dataState'.lastFetchError[a] = dataState.lastFetchError[a]
         /\ \A c \in DOMAIN cycles :
              CycleEnds(c) =>
                /\ lastAttempt'[a] \in {"true", "false"}
                /\ IsNull(dataState'.lastFetchError[a]) <=> lastAttempt'[a] = "true"
                /\ HasErrorCode(dataState'.lastFetchError[a], "FETCH_FAILED")
                     <=> lastAttempt'[a] = "false"]_vars

\* the second cycle has ended with a failed price fetch after a successful one,
\* and a successful stake-total fetch after a failed one
C37_Witness ==
  /\ cmcApiKey
  /\ started = 2 /\ cycles[2].pc = "done"
  /\ cycles[2].res["prices"] = "false"
  /\ ~IsNull(dataState.prices)
  /\ lastAttempt["prices"] = "false"
  /\ HasErrorCode(dataState.lastFetchError["prices"], "FETCH_FAILED")
  /\ cycles[2].res["stakedEth"] = "true"
  /\ lastAttempt["stakedEth"] = "true"
  /\ IsNull(dataState.lastFetchError["stakedEth"])

(***************************************************************************)
(* C38: the stored projection does not depend on the fee reader.           *)
(***************************************************************************)
\* the cache without what the fee reader writes (the fee and its error slot) and
\* without lastUpdated, which the result of the fee reader feeds
WithoutFeeReader(ds) ==
  [ds EXCEPT !.networkFee = None, !.lastFetchError["networkFee"] = None, !.lastUpdated = None]

\* the caches of the executions that differ from this one only in the fee
\* reader: it has not answered, it failed, or it returned another fee
FeeReaderVariants(ds, nowMs) ==
  { [ds EXCEPT !.networkFee = None, !.lastFetchError["networkFee"] = None,
               !.lastUpdated = None],
    [ds EXCEPT !.networkFee = None,
               !.lastFetchError["networkFee"] =
                  FetchNetworkFeeCatch(ds, "timeout of 10000ms exceeded",
                                       nowMs).lastFetchError["networkFee"],
               !.lastUpdated = None],
    [ds EXCEPT !.networkFee = FetchNetworkFeeThen(ds, ReturnData(32, DecNorm(1, 30), 0), nowMs).networkFee,
               !.lastFetchError["networkFee"] = None,
               !.lastUpdated = Some(nowMs)] }

\* the results of the cycle as the other execution has them
FeeResultVariants(res) == { [res EXCEPT !["networkFee"] = outcome] : outcome \in {"true", "false"} }

\* two caches at the end of a cycle: the same feeProjection, and no difference
\* outside the fields of the fee reader
SameProjection(x, y) ==
  /\ x.nextMonthFeeProjection = y.nextMonthFeeProjection
  /\ WithoutFeeReader(x) = WithoutFeeReader(y)

\* every continuation of the service takes the two caches to caches that again
\* differ only in what the fee reader writes
SameWithoutFeeReader(x, y, nowMs) ==
  /\ WithoutFeeReader(x) = WithoutFeeReader(y)
  /\ needsSeed(x) = needsSeed(y)
  /\ WithoutFeeReader(FetchLatestPricesMissingKey(x, nowMs))
       = WithoutFeeReader(FetchLatestPricesMissingKey(y, nowMs))
  /\ WithoutFeeReader(FetchEthStakingAprMissingKey(x, nowMs))
       = WithoutFeeReader(FetchEthStakingAprMissingKey(y, nowMs))
  /\ \A payload \in PricePayloads(nowMs) :
       WithoutFeeReader(FetchLatestPricesThen(x, payload, nowMs))
         = WithoutFeeReader(FetchLatestPricesThen(y, payload, nowMs))
  /\ WithoutFeeReader(FetchLatestPricesCatch(x, "timeout of 10000ms exceeded", nowMs))
       = WithoutFeeReader(FetchLatestPricesCatch(y, "timeout of 10000ms exceeded", nowMs))
  /\ \A payload \in AprPayloads :
       WithoutFeeReader(FetchEthStakingAprThen(x, payload, nowMs))
         = WithoutFeeReader(FetchEthStakingAprThen(y, payload, nowMs))
  /\ WithoutFeeReader(FetchEthStakingAprCatch(x, "timeout of 10000ms exceeded", nowMs))
       = WithoutFeeReader(FetchEthStakingAprCatch(y, "timeout of 10000ms exceeded", nowMs))
  /\ \A payload \in StakedEthPayloads :
       WithoutFeeReader(FetchTotalStakedEthThen(x, payload, nowMs))
         = WithoutFeeReader(FetchTotalStakedEthThen(y, payload, nowMs))
  /\ WithoutFeeReader(FetchTotalStakedEthCatch(x, "timeout of 10000ms exceeded", nowMs))
       = WithoutFeeReader(FetchTotalStakedEthCatch(y, "timeout of 10000ms exceeded", nowMs))
  /\ backfillWithCurrentPrices(x.priceHistory, x.prices, nowMs)
       = backfillWithCurrentPrices(y.priceHistory, y.prices, nowMs)

\* the end of a cycle stores the same projection in this cache (tail is what it
\* makes of it when the other adapters all ended as low) and in every variant
SameTail(tail, ds, low, nowMs) ==
  \A y \in FeeReaderVariants(ds, nowMs) :
    \A res \in FeeResultVariants([a \in Adapters |-> low]) :
      SameProjection(tail, FetchAllDataTail(y, res, nowMs))

\* what the fee reader does to the cache is confined to its own fields
FeeReaderWritesOwnFields(ds, nowMs) ==
  /\ \A rawReturn \in RawFeeInputs :
       ~IsNull(DecodeReturn(rawReturn).rawFee) =>
         WithoutFeeReader(FetchNetworkFeeThen(ds, rawReturn, nowMs)) = WithoutFeeReader(ds)
  /\ WithoutFeeReader(FetchNetworkFeeCatch(ds, "timeout of 10000ms exceeded", nowMs))
       = WithoutFeeReader(ds)
  /\ WithoutFeeReader(FetchNetworkFeeMissingProvider(ds, nowMs)) = WithoutFeeReader(ds)

\* C38: the stored fee projection does not depend on the on-chain fee reader:
\* the fee reader changes nothing but its own fields of the cache, and from two
\* caches that differ only in those fields (another fee returned, or the reader
\* failed) every later step of the service, the end of the cycle included,
\* stores the same feeProjection; its fee input is the configured fee percent.
C38_ProjectionIgnoresFeeReader ==
  /\ FeeReaderWritesOwnFields(dataState, now)
  /\ \A other \in FeeReaderVariants(dataState, now) : SameWithoutFeeReader(dataState, other, now)
  /\ \A low \in {"true", "false"} :
       SameTail(FetchAllDataTail(dataState, [a \in Adapters |-> low], now), dataState, low, now)

\* a projection is stored in a run whose fee reader failed and cached no fee
C38_Witness ==
  /\ ~IsNull(dataState.nextMonthFeeProjection)
  /\ IsNull(dataState.networkFee)
  /\ HasErrorCode(dataState.lastFetchError["networkFee"], "FETCH_FAILED")
  /\ \E c \in DOMAIN cycles : cycles[c].pc = "done" /\ cycles[c].res["networkFee"] = "false"

(***************************************************************************)
(* C39: the timer is armed after the first cycle.                          *)
(***************************************************************************)
\* a cycle other than the one startPolling awaits starts in this step
TimerCycleStarts == started >= 1 /\ started' = started + 1

\* the first cycle has run its adapters, its seeding and its projection
FirstCycleFinished ==
  /\ cycles[1].pc = "done"
  /\ Settled(cycles[1].res)

\* C39: the periodic timer is armed only after the initial cycle has completed:
\* no timer-driven cycle starts before the first cycle (adapters, seeding,
\* projection) has finished.
C39_TimerArmedAfterFirstCycle ==
  [][TimerCycleStarts => FirstCycleFinished /\ cycles'[1] = cycles[1]]_vars

\* a timer-driven cycle is running, after a first cycle that went through seeding
C39_Witness ==
  /\ started >= 2
  /\ cycles[2].pc = "adapters"
  /\ cycles[1].pc = "done"
  /\ seedResponse # "none"

(***************************************************************************)
(* C40: one snapshot fetch at a time in the web client.                    *)
(***************************************************************************)
RECURSIVE PendingFrom(_, _)
\* calls of fetchMarketSnapshot of the closures i.. that have not settled
PendingFrom(effects, i) ==
  IF i > Len(effects) THEN 0 ELSE effects[i].pending + PendingFrom(effects, i + 1)

SnapshotFetchesInFlight == PendingFrom(webapp.effects, 1)

\* the interval of closure i calls loadSnapshot in this step
TickOf(i) ==
  /\ i \in DOMAIN webapp.effects
  /\ ~IsNull(webapp.effects[i].intervalId)
  /\ webapp'.refreshTicks = webapp.refreshTicks + 1

\* a fetch of closure i settles in this step
SettlesOf(i) ==
  /\ i \in DOMAIN webapp.effects
  /\ webapp'.effects[i].pending < webapp.effects[i].pending

\* C40: in the web client at most one snapshot fetch is in flight at any time:
\* a refresh tick that fires while loadSnapshot is still running starts no
\* request, and the in-progress guard is released after both successful and
\* failed fetches (also after unmount), so a later tick fetches again.
C40_SingleSnapshotFetchInFlight ==
  [][/\ PendingFrom(webapp'.effects, 1) <= 1
     /\ \A i \in 1..MaxEffectRuns :
          /\ TickOf(i) /\ webapp.effects[i].fetchInProgress =>
               webapp'.requestsSent = webapp.requestsSent
          /\ TickOf(i) /\ ~webapp.effects[i].fetchInProgress =>
               webapp'.requestsSent = webapp.requestsSent + 1
          /\ SettlesOf(i) => ~webapp'.effects[i].fetchInProgress]_vars

=============================================================================
